---------------------------- MODULE Spec2Model ----------------------------
(***************************************************************************)
(* A model of the asynchronous control flow of the AKS desktop plugin:     *)
(*   - createManagedNamespace and the other managed-namespace wrappers of  *)
(*     utils/azure/az-cli.ts,                                              *)
(*   - monitorLoginStatus (az-cli.ts) and the login page's polling         *)
(*     (AzureLoginPage.tsx),                                               *)
(*   - the login-status checks of the plugin entry point and of            *)
(*     useAzureAuth,                                                       *)
(*   - the deploy dialog hooks useDialogState / useDeployUrlParams and the *)
(*     DeployButton that composes them,                                    *)
(*   - handleSubmit of CreateAKSProject, runCommandAsync, and handleDelete *)
(*     of the project's delete button.                                     *)
(* JavaScript strings are TLA+ strings; String.includes, toLowerCase and   *)
(* URLSearchParams are computed character by character.                    *)
(***************************************************************************)
EXTENDS Integers, Sequences, FiniteSets, TLC

VARIABLES
    \* ---- createManagedNamespace (az-cli.ts 2076-2298)
    nsPc,          \* where the async function is suspended
    nsAttempt,     \* the loop variable `attempt`
    nsInit,        \* {stdout, stderr} of the `az aks namespace add` command
    nsStatus,      \* the last value of `statusResult`
    nsResult,      \* the value the function returned
    nsPolls,       \* number of checkNamespaceStatus calls issued so far
    nsWaited,      \* the timers awaited since the last command, in ms
    \* ---- the one-shot CLI wrappers (az-cli.ts 1917-2446)
    cliCmd,        \* which wrapper ran last
    cliOut,        \* the {stdout, stderr} pairs az produced for its commands
    cliResult,     \* what the wrapper returned
    \* ---- monitorLoginStatus (az-cli.ts 618-660)
    monPc,         \* "idle", "await" (getLoginStatus in flight), "timer", "stopped"
    isPolling,     \* the closure variable isPolling
    monPollCount,  \* the closure variable pollCount
    monInterval,   \* the argument intervalMs
    monPolls,      \* number of getLoginStatus calls issued
    monTimers,     \* number of setTimeout(poll, intervalMs) timers pending
    monArmed,      \* timers armed since the last getLoginStatus call, in ms
    monLog,        \* the statuses passed to onStatusChange, oldest first
    monStatus,     \* what the last getLoginStatus call resolved with
    monCancelled,  \* whether the returned cancel function has been called
    \* ---- AzureLoginPage.handleLogin (AzureLoginPage.tsx 65-137)
    lpPc,          \* "idle", "initiating" (initiateLogin in flight), "started"
    loading,       \* React state `loading`
    statusMessage, \* React state `statusMessage`
    errorMessage,  \* React state `errorMessage`
    lpPollCount,   \* the closure variable pollCount of the attempt
    lpInterval,    \* TRUE while the setInterval timer is registered
    lpInFlight,    \* getLoginStatus calls of the attempt that have not resolved
    lpPolls,       \* number of getLoginStatus calls the attempt issued
    lpRedirects,   \* pending setTimeout(redirect, 1000) timers
    lpPushed,      \* number of history.push calls made
    lpCancelled,   \* whether Cancel has been pressed
    cancelledPolling,  \* Cancel was pressed while the interval was registered and live
    \* ---- plugin entry point and useAzureAuth (index.tsx 95-167, useAzureAuth.tsx)
    azLoggedIn,    \* whether `az account show` currently finds an account
    authChecks,    \* the login-status checks in flight
    windowAuth,    \* window.__azureAuthStatus
    currentUsername, \* the module variable currentUsername
    sidebarLabel,  \* the label last registered for the sidebar entry
    isWindowFocused, \* the module variable isWindowFocused
    authStarted,   \* number of checks started
    authWriter,    \* the check that last wrote window.__azureAuthStatus (0: none)
    \* ---- DeployButton, useDeployUrlParams, useDialogState
    locSearch,     \* location.search
    locPathname,   \* location.pathname
    shouldOpenDialog,      \* useDeployUrlParams state
    urlAppName,            \* useDeployUrlParams state initialApplicationName
    urlDeps,       \* the dependencies the URL effect last ran with
    dlgOpen,       \* useDialogState state `open`
    dlgAppName,    \* useDialogState state initialApplicationName
    btnDeps,       \* the dependencies the DeployButton effect last ran with
    replaced,      \* the arguments of the history.replace calls, oldest first
    lastCall,      \* the last hook callback invoked and its argument
    navs,          \* number of navigations so far
    visits,        \* number of locations visited whose query has openDeploy=true
    deepOpens,     \* number of times the DeployButton effect opened the dialog
    \* ---- CreateAKSProject.handleSubmit (CreateAKSProject.tsx 135-440)
    subPc,         \* where creationPromise is suspended, or how it settled
    subRace,       \* "none", "pending" (handleSubmit awaits the race), "won", "failed"
    timeoutTimer,  \* TRUE while the 10-minute timer is pending
    successTimer,  \* TRUE while the 2-second timer of the success path is pending
    isCreating,    \* React state isCreating
    creationError, \* React state creationError
    showSuccessDialog, \* React state showSuccessDialog
    userAssignments,   \* formData.userAssignments of the submission
    namespaceResult,   \* what createManagedNamespace returned to handleSubmit
    retryCount,    \* the loop variable retryCount
    index,         \* the loop variable index into validAssignments (from 1)
    roleAssignmentResults, \* the results for the current assignee, in order
    assignmentErrors,  \* number of entries of assignmentErrors
    finalAttempt,  \* the loop variable attempt of the final verification
    assigneeLog,   \* per assignee gone through: the roles assigned and the access found
    lateCommands,  \* the kinds of az commands issued after creationError was set
    \* ---- runCommandAsync (az-cli.ts 32-86)
    runPc,         \* "idle", "running" (the process was started), "returned" (it was not)
    runStdout,     \* the closure variable stdout
    runStderr,     \* the closure variable stderr
    runPromise,    \* the promise returned: its state and value
    runEvents,     \* what happened to the command, oldest first
    runData,       \* number of 'data' events so far
    \* ---- AKSProjectDeleteButton (handleDelete and its dialog)
    delPc,         \* where handleDelete is: "idle", "fetch", "arm", "refetch", "k8s", "done"
    open,          \* the state open of the confirmation dialog
    deleting,      \* the state deleting
    deleteNamespaces,  \* the state behind the "also delete the namespaces" box
    delClosure,    \* deleteNamespaces as the running handleDelete captured it
    projectNamespaces, \* project.namespaces
    namespaces,    \* the loop's list: the namespaces that were found
    delIndex,      \* position of the loop in namespaces (from 1)
    armLog,        \* per deleteManagedNamespace call: what az answered, what came back
    k8sRequests,   \* the changing requests sent to the Kubernetes API, oldest first
    delPushed,     \* how often history.push('/') ran
    delAlerts      \* the texts shown with alert()

nsVars == <<nsPc, nsAttempt, nsInit, nsStatus, nsResult, nsPolls, nsWaited>>
cliVars == <<cliCmd, cliOut, cliResult>>
monVars == <<monPc, isPolling, monPollCount, monInterval, monPolls, monTimers,
             monArmed, monLog, monStatus, monCancelled>>
lpVars == <<lpPc, loading, statusMessage, errorMessage, lpPollCount, lpInterval,
            lpInFlight, lpPolls, lpRedirects, lpPushed, lpCancelled,
            cancelledPolling>>
authVars == <<azLoggedIn, authChecks, windowAuth, currentUsername, sidebarLabel,
              isWindowFocused, authStarted, authWriter>>
depVars == <<locSearch, locPathname, shouldOpenDialog, urlAppName, urlDeps,
             dlgOpen, dlgAppName, btnDeps, replaced, lastCall, navs, visits,
             deepOpens>>
subVars == <<subPc, subRace, timeoutTimer, successTimer, isCreating, creationError,
             showSuccessDialog, userAssignments, namespaceResult, retryCount, index,
             roleAssignmentResults, assignmentErrors, finalAttempt, assigneeLog,
             lateCommands>>
runVars == <<runPc, runStdout, runStderr, runPromise, runEvents, runData>>
delVars == <<delPc, open, deleting, deleteNamespaces, delClosure, projectNamespaces,
             namespaces, delIndex, armLog, k8sRequests, delPushed, delAlerts>>
vars == <<nsVars, cliVars, monVars, lpVars, authVars, depVars, subVars, runVars,
          delVars>>

\* the variables each part leaves alone
notNs == <<cliVars, monVars, lpVars, authVars, depVars, subVars, runVars, delVars>>
notCli == <<nsVars, monVars, lpVars, authVars, depVars, subVars, runVars, delVars>>
notMon == <<nsVars, cliVars, lpVars, authVars, depVars, subVars, runVars, delVars>>
notLp == <<nsVars, cliVars, monVars, authVars, depVars, subVars, runVars, delVars>>
notAuth == <<nsVars, cliVars, monVars, lpVars, depVars, subVars, runVars, delVars>>
notDep == <<nsVars, cliVars, monVars, lpVars, authVars, subVars, runVars, delVars>>
\* handleSubmit calls createManagedNamespace, so it leaves alone:
notSub == <<cliVars, monVars, lpVars, authVars, depVars, runVars, delVars>>
notRun == <<nsVars, cliVars, monVars, lpVars, authVars, depVars, subVars, delVars>>
notDel == <<nsVars, cliVars, monVars, lpVars, authVars, depVars, subVars, runVars>>

\* JavaScript's undefined / null
Undefined == "<undefined>"

---------------------------------------------------------------------------
(* Strings                                                                 *)

\* String.prototype.includes
Includes(s, sub) ==
    \E i \in 1..(Len(s) - Len(sub) + 1) : SubSeq(s, i, i + Len(sub) - 1) = sub

UpperChars == "ABCDEFGHIJKLMNOPQRSTUVWXYZ"
LowerChars == "abcdefghijklmnopqrstuvwxyz"

LowerChar(c) ==
    IF \E i \in 1..Len(UpperChars) : SubSeq(UpperChars, i, i) = c
    THEN LET i == CHOOSE j \in 1..Len(UpperChars) : SubSeq(UpperChars, j, j) = c
         IN SubSeq(LowerChars, i, i)
    ELSE c

\* String.prototype.toLowerCase
RECURSIVE ToLowerCase(_)
ToLowerCase(s) ==
    IF Len(s) = 0 THEN ""
    ELSE LowerChar(SubSeq(s, 1, 1)) \o ToLowerCase(SubSeq(s, 2, Len(s)))

\* needsRelogin (az-cli.ts 24-30)
needsRelogin(error) ==
    \/ Includes(error, "Interactive authentication is needed")
    \/ Includes(error, "AADSTS700082")
    \/ Includes(error, "AADSTS50173")

\* the test `stderr.includes('ERROR') || stderr.includes('error')`
HasErrorText(stderr) == Includes(stderr, "ERROR") \/ Includes(stderr, "error")

---------------------------------------------------------------------------
(* What the az subprocess can answer                                       *)

\* stderr texts: nothing, a warning, the two spellings the wrappers look for,
\* a capitalised "Error", and the three re-login markers
StderrTexts ==
    { "",
      "WARNING: x",
      "ERROR: x",
      "az: error",
      "Error: x",
      "Interactive authentication is needed",
      "AADSTS700082",
      "AADSTS50173" }

\* provisioningState values the control plane reports
ProvisioningStates ==
    { "Succeeded", "succeeded", "SUCCEEDED", "Failed", "ERROR",
      "Creating", "InProgress", "Updating", "Deleting" }

\* stdout of `az aks namespace list --query [?name=='..']`, by the shape
\* JSON.parse gives it: json = "empty" (no output), "invalid" (not JSON),
\* "nonArray", "emptyArray", "noState" (first element without
\* provisioningState), "nonString" (a provisioningState that is no string),
\* "state" (a provisioningState string, in `state`)
ListOutputs ==
    { [json |-> j, state |-> ""] :
        j \in {"empty", "invalid", "nonArray", "emptyArray", "noState", "nonString"} }
    \cup { [json |-> "state", state |-> s] : s \in ProvisioningStates }


---------------------------------------------------------------------------
(* checkNamespaceStatus and createManagedNamespace                         *)

maxAttempts == 60
pollInterval == 5000
initDelay == 2000

\* a provisioningState that is present but is not a string
NonString == "<non-string>"

\* checkNamespaceStatus (az-cli.ts 1917-2033) applied to what az answered
checkNamespaceStatus(out) ==
    IF out.stderr # "" /\ needsRelogin(out.stderr)
    THEN [success |-> FALSE, status |-> Undefined, stderr |-> out.stderr,
          error |-> "Authentication required. Please log in to Azure CLI: az login"]
    ELSE IF out.stderr # "" /\ HasErrorText(out.stderr)
    THEN [success |-> FALSE, status |-> Undefined, stderr |-> out.stderr,
          error |-> "Failed to check namespace status: " \o out.stderr]
    ELSE IF out.stdout.json = "invalid"
    THEN [success |-> FALSE, status |-> Undefined, stderr |-> out.stderr,
          error |-> "Failed to parse namespace status response"]
    ELSE IF out.stdout.json \in {"empty", "nonArray", "emptyArray"}
    THEN [success |-> TRUE, status |-> "notfound", stderr |-> out.stderr,
          error |-> Undefined]
    ELSE IF out.stdout.json = "noState"
    THEN [success |-> TRUE, status |-> "unknown", stderr |-> out.stderr,
          error |-> Undefined]
    ELSE IF out.stdout.json = "nonString"
    THEN [success |-> TRUE, status |-> NonString, stderr |-> out.stderr,
          error |-> Undefined]
    ELSE [success |-> TRUE, status |-> out.stdout.state, stderr |-> out.stderr,
          error |-> Undefined]

\* every value checkNamespaceStatus can put in `status`, with its lower-case
\* form computed once
StatusValues == ProvisioningStates \cup {"notfound", "unknown", NonString, Undefined}
LowerCased == [s \in StatusValues |-> ToLowerCase(s)]

\* a variant that compares the status as reported
StatusDropsCase(status) == status
\* `statusResult.status?.toLowerCase()` (az-cli.ts 2216)
StatusLower(status) == LowerCased[status]

\* the statuses the loop waits on by name (az-cli.ts 2240-2245)
InProgressStatuses == {"creating", "inprogress", "updating", "notfound"}

\* the guard `attempt < maxAttempts` of both retry branches (az-cli.ts 2246, 2267)
MayRetry(attempt) == attempt < maxAttempts

\* a variant whose retry on an unexpected status does not wait
RetryDelayShort(status) == IF status \in InProgressStatuses THEN pollInterval ELSE 0
\* the timer both retry branches await before `continue` (az-cli.ts 2250, 2269)
RetryDelay(status) == pollInterval

\* what az can answer to the add command and to the list command: every
\* stderr text, and every stdout shape under the stderr texts that are no error
AddOutputs == { [stdout |-> "{}", stderr |-> e] : e \in StderrTexts }
StatusOutputs ==
    { [stdout |-> o, stderr |-> e] : o \in ListOutputs, e \in {"", "WARNING: x"} }
    \cup { [stdout |-> [json |-> "state", state |-> "Succeeded"], stderr |-> e] :
              e \in StderrTexts }

\* checkNamespaceStatus on each of these answers, computed once
StatusResults == [out \in StatusOutputs |-> checkNamespaceStatus(out)]


NsReturn(r) ==
    /\ nsPc' = "done"
    /\ nsResult' = r

NsFail(err, stdout, stderr) ==
    NsReturn([success |-> FALSE, stdout |-> stdout, stderr |-> stderr, error |-> err])

NoResult == [success |-> FALSE, stdout |-> "", stderr |-> "", error |-> "<pending>"]
NoStatus == [success |-> FALSE, status |-> Undefined, stderr |-> "", error |-> "<none>"]

NsInitial ==
    /\ nsPc = "start"
    /\ nsAttempt = 0
    /\ nsInit = [stdout |-> "", stderr |-> ""]
    /\ nsStatus = NoStatus
    /\ nsResult = NoResult
    /\ nsPolls = 0
    /\ nsWaited = <<>>

\* the call: the arguments are assembled and `az aks namespace add --no-wait`
\* is started (az-cli.ts 2104-2161)
NsCall ==
    /\ UNCHANGED notNs
    /\ nsPc = "start"
    /\ nsPc' = "add"
    /\ UNCHANGED <<nsAttempt, nsInit, nsStatus, nsResult, nsPolls, nsWaited>>

\* the two tests on the add command's stderr (az-cli.ts 2167-2183): the error
\* the call returns with, or Undefined when it goes on to poll
AddError(out) ==
    IF out.stderr # "" /\ needsRelogin(out.stderr)
    THEN "Authentication required. Please log in to Azure CLI: az login"
    ELSE IF out.stderr # "" /\ HasErrorText(out.stderr)
    THEN "Failed to initiate managed namespace creation: " \o out.stderr
    ELSE Undefined

\* the add command resolves (az-cli.ts 2161-2189)
NsAddResolves(out) ==
    /\ UNCHANGED notNs
    /\ nsPc = "add"
    /\ nsInit' = out
    /\ IF AddError(out) # Undefined
       THEN /\ NsFail(AddError(out), out.stdout, out.stderr)
            /\ UNCHANGED nsWaited
       ELSE /\ nsPc' = "initWait"
            /\ nsWaited' = <<>>
            /\ UNCHANGED nsResult
    /\ UNCHANGED <<nsAttempt, nsStatus, nsPolls>>

\* a timer the function awaits fires: the loop head runs and, while
\* attempt <= maxAttempts, the next checkNamespaceStatus is issued
\* (az-cli.ts 2189-2205, 2250-2251, 2269-2270, 2283-2288)
NsTimerFires ==
    /\ UNCHANGED notNs
    /\ nsPc \in {"initWait", "pollWait"}
    /\ nsWaited' = Append(nsWaited, IF nsPc = "initWait" THEN initDelay
                                     ELSE RetryDelay(StatusLower(nsStatus.status)))
    /\ nsAttempt' = nsAttempt + 1
    /\ IF nsAttempt + 1 <= maxAttempts
       THEN /\ nsPc' = "status"
            /\ nsPolls' = nsPolls + 1
            /\ UNCHANGED nsResult
       ELSE /\ NsFail("Namespace creation polling completed without resolution",
                      nsInit.stdout, nsInit.stderr)
            /\ UNCHANGED nsPolls
    /\ UNCHANGED <<nsInit, nsStatus>>

\* checkNamespaceStatus resolves and the loop body runs (az-cli.ts 2200-2279);
\* a provisioningState that is no string makes toLowerCase throw, which the
\* outer catch turns into a failure (az-cli.ts 2289-2297)
NsStatusResolves(out) ==
    /\ UNCHANGED notNs
    /\ nsPc = "status"
    /\ LET statusResult == StatusResults[out]
           status == StatusLower(statusResult.status)
       IN /\ nsStatus' = statusResult
          /\ nsWaited' = <<>>
          /\ IF ~statusResult.success
             THEN NsFail(statusResult.error, nsInit.stdout, statusResult.stderr)
             ELSE IF statusResult.status = NonString
             THEN NsFail("Failed to create managed namespace: status.toLowerCase is not a function",
                         "", "")
             ELSE IF status = "succeeded"
             THEN NsReturn([success |-> TRUE, stdout |-> nsInit.stdout,
                            stderr |-> nsInit.stderr, error |-> Undefined])
             ELSE IF status \in {"failed", "error"}
             THEN NsFail("Namespace creation failed with status: " \o status,
                         nsInit.stdout, nsInit.stderr)
             ELSE IF MayRetry(nsAttempt)
             THEN /\ nsPc' = "pollWait"
                  /\ UNCHANGED nsResult
             ELSE IF status \in InProgressStatuses
             THEN NsFail("Namespace creation timed out after 60 attempts. Status: " \o status,
                         nsInit.stdout, nsInit.stderr)
             ELSE NsFail("Namespace creation timed out with unexpected status: " \o status,
                         nsInit.stdout, nsInit.stderr)
    /\ UNCHANGED <<nsAttempt, nsInit, nsPolls>>

NextNs ==
    \/ NsCall
    \/ \E out \in AddOutputs : NsAddResolves(out)
    \/ NsTimerFires
    \/ \E out \in StatusOutputs : NsStatusResolves(out)

---------------------------------------------------------------------------
(* The managed-namespace wrappers, each applied to what az answered        *)

WhiteSpace == {" ", "\n", "\t"}

\* String.prototype.trim
RECURSIVE Trim(_)
Trim(s) ==
    IF Len(s) = 0 THEN s
    ELSE IF SubSeq(s, 1, 1) \in WhiteSpace THEN Trim(SubSeq(s, 2, Len(s)))
    ELSE IF SubSeq(s, Len(s), Len(s)) \in WhiteSpace THEN Trim(SubSeq(s, 1, Len(s) - 1))
    ELSE s

\* deleteManagedNamespace (az-cli.ts 2035-2074); tryExec never rejects, so the
\* catch block is not reached
deleteManagedNamespace(out) ==
    [success |-> TRUE, stdout |-> out.stdout, stderr |-> out.stderr, error |-> Undefined]

\* the part of createNamespaceRoleAssignment that follows `namespace show`
\* (az-cli.ts 2360-2389): the failure it returns, or Undefined
ShowFailure(show) ==
    IF show.stderr # "" /\ needsRelogin(show.stderr)
    THEN "Authentication required. Please log in to Azure CLI: az login"
    ELSE IF show.stderr # "" /\ HasErrorText(show.stderr)
    THEN "Failed to get namespace resource ID: " \o show.stderr
    ELSE IF Trim(show.stdout) = ""
    THEN "Failed to get namespace resource ID"
    ELSE Undefined

\* the part that follows `role assignment create` (az-cli.ts 2412-2436)
createRoleResult(role) ==
    IF role.stderr # "" /\ needsRelogin(role.stderr)
    THEN [success |-> FALSE, stdout |-> role.stdout, stderr |-> role.stderr,
          error |-> "Authentication required. Please log in to Azure CLI: az login"]
    ELSE IF role.stderr # "" /\ HasErrorText(role.stderr)
    THEN [success |-> FALSE, stdout |-> role.stdout, stderr |-> role.stderr,
          error |-> "Failed to create role assignment: " \o role.stderr]
    ELSE [success |-> TRUE, stdout |-> role.stdout, stderr |-> role.stderr,
          error |-> Undefined]

\* stdout of `az aks namespace show --query id --output tsv`
ShowOutputs == { [stdout |-> o, stderr |-> e] :
                   o \in {"", "/subscriptions/s/ns\n", " \n"}, e \in StderrTexts }
RoleOutputs == { [stdout |-> o, stderr |-> e] : o \in {"", "{}"}, e \in StderrTexts }
DeleteOutputs == { [stdout |-> o, stderr |-> e] : o \in {"", "{}"}, e \in StderrTexts }

CliInitial ==
    /\ cliCmd = "none"
    /\ cliOut = <<>>
    /\ cliResult = [returned |-> FALSE, success |-> FALSE, error |-> Undefined]

CliReturn(r) == cliResult' = [returned |-> TRUE, success |-> r.success, error |-> r.error]

\* createManagedNamespace up to the answer of its add command: it returns a
\* failure, or goes on to poll
CliCreateAdd(out) ==
    /\ UNCHANGED notCli
    /\ cliCmd' = "create"
    /\ cliOut' = <<out>>
    /\ IF AddError(out) # Undefined
       THEN CliReturn([success |-> FALSE, error |-> AddError(out)])
       ELSE cliResult' = [returned |-> FALSE, success |-> FALSE, error |-> Undefined]

CliStatus(out) ==
    /\ UNCHANGED notCli
    /\ cliCmd' = "status"
    /\ cliOut' = <<out>>
    /\ CliReturn(StatusResults[out])

CliDelete(out) ==
    /\ UNCHANGED notCli
    /\ cliCmd' = "delete"
    /\ cliOut' = <<out>>
    /\ CliReturn(deleteManagedNamespace(out))

\* createNamespaceRoleAssignment (az-cli.ts 2301-2446): the second command
\* runs only when the first gave a resource id
CliRole(show, role) ==
    /\ UNCHANGED notCli
    /\ cliCmd' = "role"
    /\ IF ShowFailure(show) # Undefined
       THEN /\ cliOut' = <<show>>
            /\ CliReturn([success |-> FALSE, error |-> ShowFailure(show)])
       ELSE /\ cliOut' = <<show, role>>
            /\ CliReturn(createRoleResult(role))

NextCli ==
    \/ \E out \in AddOutputs : CliCreateAdd(out)
    \/ \E out \in StatusOutputs : CliStatus(out)
    \/ \E out \in DeleteOutputs : CliDelete(out)
    \/ \E show \in ShowOutputs, role \in RoleOutputs : CliRole(show, role)

---------------------------------------------------------------------------
(* getLoginStatus and monitorLoginStatus                                   *)

\* what `az account show -o json` can answer: an account, nothing but a
\* request to log in, output that is no JSON, and a shell that has no az
AccountOutputs ==
    { [stdout |-> "{\"user\":{\"name\":\"ada@contoso.com\"}}", json |-> TRUE, stderr |-> ""],
      [stdout |-> "", json |-> FALSE, stderr |-> "Please run 'az login' to setup account."],
      [stdout |-> "az 2.x", json |-> FALSE, stderr |-> ""],
      [stdout |-> "", json |-> FALSE, stderr |-> "sh: az: command not found"] }

\* getLoginStatus (az-cli.ts 485-537); `json` says whether JSON.parse accepts
\* stdout. It catches every exception, so it never rejects.
getLoginStatus(out) ==
    IF out.stderr # "" /\ (\/ Includes(out.stderr, "command not found")
                           \/ Includes(out.stderr, "not found")
                           \/ Includes(out.stderr, "Azure CLI (az) command not found"))
    THEN [isLoggedIn |-> FALSE, username |-> Undefined,
          error |-> "Azure CLI not found. Please install Azure CLI first."]
    ELSE IF out.stdout = ""
    THEN [isLoggedIn |-> FALSE, username |-> Undefined,
          error |-> IF out.stderr # "" THEN out.stderr ELSE "Not logged in"]
    ELSE IF out.json
    THEN [isLoggedIn |-> TRUE, username |-> "ada@contoso.com", error |-> Undefined]
    ELSE [isLoggedIn |-> FALSE, username |-> Undefined,
          error |-> "Failed to parse account information"]

\* the results getLoginStatus can resolve with
LoginStatuses == { getLoginStatus(out) : out \in AccountOutputs }

maxPolls == 60

\* String(n).padStart(2, '0')
PadStart2(n) == IF Len(ToString(n)) < 2 THEN "0" \o ToString(n) ELSE ToString(n)

\* the message of az-cli.ts 636-642; the intervals used are whole seconds
WaitingMessage(pollCount, intervalMs) ==
    LET remaining == ((maxPolls - pollCount) * intervalMs) \div 1000
    IN "Waiting for login... (" \o ToString(remaining \div 60) \o ":"
           \o PadStart2(remaining % 60) \o ")"

\* a variant that allows one more poll
PollsExhaustedLate(pollCount) == pollCount > maxPolls
\* the test `pollCount >= maxPolls` (az-cli.ts 643)
PollsExhausted(pollCount) == pollCount >= maxPolls

Intervals == {5000, 1000}

MonInitial ==
    /\ monPc = "idle"
    /\ isPolling = FALSE
    /\ monPollCount = 0
    /\ monInterval = 0
    /\ monPolls = 0
    /\ monTimers = 0
    /\ monArmed = <<>>
    /\ monLog = <<>>
    /\ monStatus = [isLoggedIn |-> FALSE, username |-> Undefined, error |-> "<none>"]
    /\ monCancelled = FALSE

\* monitorLoginStatus is called (az-cli.ts 618-625, 656-659): the first poll()
\* runs up to its await
MonStart(intervalMs) ==
    /\ UNCHANGED notMon
    /\ monPc = "idle"
    /\ monInterval' = intervalMs
    /\ isPolling' = TRUE
    /\ monPollCount' = 1
    /\ monPolls' = 1
    /\ monPc' = "await"
    /\ UNCHANGED <<monTimers, monArmed, monLog, monStatus, monCancelled>>

\* getLoginStatus resolves and poll() runs to its end (az-cli.ts 631-653)
MonStatusResolves(status) ==
    /\ UNCHANGED notMon
    /\ monPc = "await"
    /\ monStatus' = status
    /\ IF status.isLoggedIn
       THEN /\ monLog' = Append(monLog, [isLoggedIn |-> TRUE, message |-> "Login successful!"])
            /\ isPolling' = FALSE
            /\ monPc' = "stopped"
            /\ monArmed' = <<>>
            /\ UNCHANGED monTimers
       ELSE LET waiting == [isLoggedIn |-> FALSE,
                            message |-> WaitingMessage(monPollCount, monInterval)]
            IN IF PollsExhausted(monPollCount)
               THEN /\ monLog' = monLog \o <<waiting,
                          [isLoggedIn |-> FALSE, message |-> "Login timeout. Please try again."]>>
                    /\ isPolling' = FALSE
                    /\ monPc' = "stopped"
                    /\ monArmed' = <<>>
                    /\ UNCHANGED monTimers
               ELSE /\ monLog' = Append(monLog, waiting)
                    /\ monTimers' = monTimers + 1
                    /\ monArmed' = <<monInterval>>
                    /\ monPc' = "timer"
                    /\ UNCHANGED isPolling
    /\ UNCHANGED <<monPollCount, monInterval, monPolls, monCancelled>>

\* the timer fires and poll() runs up to its await, or returns at once
\* when isPolling is false (az-cli.ts 626-631)
MonTimerFires ==
    /\ UNCHANGED notMon
    /\ monPc = "timer"
    /\ monTimers' = monTimers - 1
    /\ IF ~isPolling
       THEN /\ monPc' = "stopped"
            /\ UNCHANGED <<monPollCount, monPolls>>
       ELSE /\ monPollCount' = monPollCount + 1
            /\ monPolls' = monPolls + 1
            /\ monPc' = "await"
    /\ UNCHANGED <<isPolling, monInterval, monArmed, monLog, monStatus, monCancelled>>

\* the caller calls the returned function (az-cli.ts 657-659)
MonCancel ==
    /\ UNCHANGED notMon
    /\ monPc # "idle"
    /\ ~monCancelled
    /\ isPolling' = FALSE
    /\ monCancelled' = TRUE
    /\ UNCHANGED <<monPc, monPollCount, monInterval, monPolls, monTimers, monArmed,
                   monLog, monStatus>>

NextMon ==
    \/ \E intervalMs \in Intervals : MonStart(intervalMs)
    \/ \E status \in LoginStatuses : MonStatusResolves(status)
    \/ MonTimerFires
    \/ MonCancel

---------------------------------------------------------------------------
(* AzureLoginPage: handleLogin and handleCancel                            *)

pageMaxPolls == 60

\* how many getLoginStatus calls of one attempt may be unresolved at once
MaxInFlight == 2

\* what `az login` can answer, as far as initiateLogin looks at it
LoginOutputs ==
    { [stdout |-> "[]", stderr |-> ""],
      [stdout |-> "", stderr |-> "WARNING: A web browser has been opened"],
      [stdout |-> "", stderr |-> "spawn az ENOENT"],
      [stdout |-> "", stderr |-> "sh: az: command not found"] }

\* initiateLogin (az-cli.ts 559-616)
initiateLogin(out) ==
    IF out.stderr # "" /\ (\/ Includes(out.stderr, "command not found")
                           \/ Includes(out.stderr, "az: not found")
                           \/ Includes(out.stderr, "Azure CLI (az) command not found")
                           \/ Includes(out.stderr, "ENOENT")
                           \/ Includes(out.stderr, "spawn az ENOENT"))
    THEN [success |-> FALSE,
          message |-> "Azure CLI not found. Please install Azure CLI first."]
    ELSE [success |-> TRUE,
          message |-> "Login process initiated. Please complete authentication in your browser."]

InitiateResults == { initiateLogin(out) : out \in LoginOutputs }

\* `remaining.toFixed(1)` for remaining = ((maxPolls - pollCount) * 5) / 60
\* (AzureLoginPage.tsx 110-113): tenths of a minute, halves rounded up
RemainingMessage(pollCount) ==
    LET tenths == ((pageMaxPolls - pollCount) * 50 + 30) \div 60
    IN "Waiting for login completion... (" \o ToString(tenths \div 10) \o "."
          \o ToString(tenths % 10) \o " minutes remaining)"

LpInitial ==
    /\ lpPc = "idle"
    /\ loading = FALSE
    /\ statusMessage = ""
    /\ errorMessage = ""
    /\ lpPollCount = 0
    /\ lpInterval = FALSE
    /\ lpInFlight = 0
    /\ lpPolls = 0
    /\ lpRedirects = 0
    /\ lpPushed = 0
    /\ lpCancelled = FALSE
    /\ cancelledPolling = FALSE

\* the Sign in button, rendered while loading is false: handleLogin runs up
\* to `await initiateLogin()` (AzureLoginPage.tsx 65-71)
LpClickLogin ==
    /\ UNCHANGED notLp
    /\ lpPc = "idle"
    /\ ~loading
    /\ loading' = TRUE
    /\ errorMessage' = ""
    /\ statusMessage' = "Initiating Azure login..."
    /\ lpPc' = "initiating"
    /\ UNCHANGED <<lpPollCount, lpInterval, lpInFlight, lpPolls, lpRedirects, lpPushed,
                   lpCancelled, cancelledPolling>>

\* initiateLogin resolves (AzureLoginPage.tsx 71-120): on success the
\* interval is registered with pollCount = 0
LpInitiateResolves(result) ==
    /\ UNCHANGED notLp
    /\ lpPc = "initiating"
    /\ lpPc' = "started"
    /\ IF ~result.success
       THEN /\ errorMessage' = result.message
            /\ loading' = FALSE
            /\ UNCHANGED <<statusMessage, lpInterval, lpPollCount>>
       ELSE /\ statusMessage' = "Please complete the authentication in your browser. This window will automatically redirect once login is complete."
            /\ lpPollCount' = 0
            /\ lpInterval' = TRUE
            /\ UNCHANGED <<errorMessage, loading>>
    /\ UNCHANGED <<lpInFlight, lpPolls, lpRedirects, lpPushed, lpCancelled, cancelledPolling>>

\* the interval fires: the callback counts the poll and awaits getLoginStatus
\* (AzureLoginPage.tsx 87-91, 118); setInterval does not wait for the
\* previous callback's await
LpTick ==
    /\ UNCHANGED notLp
    /\ lpInterval
    /\ lpInFlight < MaxInFlight
    /\ lpPollCount' = lpPollCount + 1
    /\ lpInFlight' = lpInFlight + 1
    /\ lpPolls' = lpPolls + 1
    /\ UNCHANGED <<lpPc, loading, statusMessage, errorMessage, lpInterval, lpRedirects,
                   lpPushed, lpCancelled, cancelledPolling>>

\* a getLoginStatus call of the attempt resolves and its callback runs to
\* the end (AzureLoginPage.tsx 91-117)
LpStatusResolves(status) ==
    /\ UNCHANGED notLp
    /\ lpInFlight > 0
    /\ lpInFlight' = lpInFlight - 1
    /\ IF status.isLoggedIn
       THEN /\ lpInterval' = FALSE
            /\ statusMessage' = "Login successful! Redirecting..."
            /\ lpRedirects' = lpRedirects + 1
            /\ UNCHANGED <<errorMessage, loading>>
       ELSE IF lpPollCount >= pageMaxPolls
       THEN /\ lpInterval' = FALSE
            /\ errorMessage' = "Login timeout. Please try again."
            /\ loading' = FALSE
            /\ UNCHANGED <<statusMessage, lpRedirects>>
       ELSE /\ statusMessage' = RemainingMessage(lpPollCount)
            /\ UNCHANGED <<errorMessage, loading, lpInterval, lpRedirects>>
    /\ UNCHANGED <<lpPc, lpPollCount, lpPolls, lpPushed, lpCancelled, cancelledPolling>>

\* the one-second timer set after a successful poll fires
\* (AzureLoginPage.tsx 101-104)
LpRedirectFires ==
    /\ UNCHANGED notLp
    /\ lpRedirects > 0
    /\ lpRedirects' = lpRedirects - 1
    /\ lpPushed' = lpPushed + 1
    /\ UNCHANGED <<lpPc, loading, statusMessage, errorMessage, lpPollCount, lpInterval,
                   lpInFlight, lpPolls, lpCancelled, cancelledPolling>>

\* the Cancel button, rendered while loading is true (AzureLoginPage.tsx
\* 130-137); pollingInterval is set once the interval has been registered
LpCancel ==
    /\ UNCHANGED notLp
    /\ loading
    /\ lpInterval' = FALSE
    /\ loading' = FALSE
    /\ statusMessage' = ""
    /\ errorMessage' = ""
    /\ lpCancelled' = TRUE
    /\ cancelledPolling' = (cancelledPolling \/ lpInterval)
    /\ UNCHANGED <<lpPc, lpPollCount, lpInFlight, lpPolls, lpRedirects, lpPushed>>

NextLp ==
    \/ LpClickLogin
    \/ \E result \in InitiateResults : LpInitiateResolves(result)
    \/ LpTick
    \/ \E status \in LoginStatuses : LpStatusResolves(status)
    \/ LpRedirectFires
    \/ LpCancel

---------------------------------------------------------------------------
(* The login-status checks of the plugin entry point and of useAzureAuth   *)

\* how many login-status checks are started in one run
MaxChecks == 3

\* `status.username.split('@')[0]`
RECURSIVE BeforeAt(_)
BeforeAt(s) ==
    IF Len(s) = 0 \/ SubSeq(s, 1, 1) = "@" THEN ""
    ELSE SubSeq(s, 1, 1) \o BeforeAt(SubSeq(s, 2, Len(s)))

\* what getLoginStatus resolves with, given whether az has an account
StatusOf(loggedIn) ==
    IF loggedIn
    THEN CHOOSE st \in LoginStatuses : st.isLoggedIn
    ELSE CHOOSE st \in LoginStatuses : st.error = "Please run 'az login' to setup account."

NoAnswer == [isLoggedIn |-> FALSE, username |-> Undefined, error |-> "<pending>"]

\* a check that has just been started: its getLoginStatus call is in flight
\* (`by` is what started it; `kind` is "label" for updateAzureAccountLabel and
\* "hook" for checkAuth)
NewCheck(id, by) ==
    [id |-> id, by |-> by, kind |-> IF by = "useAzureAuth" THEN "hook" ELSE "label",
     answered |-> FALSE, status |-> NoAnswer]

\* the object both updateAzureAccountLabel (index.tsx 103-110) and checkAuth
\* (useAzureAuth.tsx 38-50) store in window.__azureAuthStatus
AuthStatusOf(status) ==
    [isLoggedIn |-> status.isLoggedIn, isChecking |-> FALSE,
     username |-> status.username, error |-> status.error]

\* the state after the entry point has run (index.tsx 77-82, 96, 149, 155):
\* the first updateAzureAccountLabel call is in flight
AuthInitial ==
    /\ azLoggedIn \in BOOLEAN
    /\ authChecks = {NewCheck(1, "load")}
    /\ windowAuth = [isLoggedIn |-> FALSE, isChecking |-> TRUE,
                     username |-> Undefined, error |-> Undefined]
    /\ currentUsername = Undefined
    /\ sidebarLabel = "Azure Account"
    /\ isWindowFocused \in BOOLEAN
    /\ authStarted = 1
    /\ authWriter = 0

AuthStart(by) ==
    /\ authStarted < MaxChecks
    /\ authStarted' = authStarted + 1
    /\ authChecks' = authChecks \cup {NewCheck(authStarted + 1, by)}

\* setInterval(updateAzureAccountLabel, 30000) fires (index.tsx 167)
AuthTimerFires ==
    /\ UNCHANGED notAuth
    /\ AuthStart("timer")
    /\ UNCHANGED <<azLoggedIn, windowAuth, currentUsername, sidebarLabel,
                   isWindowFocused, authWriter>>

\* an 'azure-auth-update' event is dispatched (index.tsx 152)
AuthUpdateEvent ==
    /\ UNCHANGED notAuth
    /\ AuthStart("azure-auth-update")
    /\ UNCHANGED <<azLoggedIn, windowAuth, currentUsername, sidebarLabel,
                   isWindowFocused, authWriter>>

\* the window's focus handler (index.tsx 156-161)
AuthFocus ==
    /\ UNCHANGED notAuth
    /\ ~isWindowFocused
    /\ isWindowFocused' = TRUE
    /\ AuthStart("focus")
    /\ UNCHANGED <<azLoggedIn, windowAuth, currentUsername, sidebarLabel, authWriter>>

\* the window's blur handler (index.tsx 162-164)
AuthBlur ==
    /\ UNCHANGED notAuth
    /\ isWindowFocused
    /\ isWindowFocused' = FALSE
    /\ UNCHANGED <<azLoggedIn, authChecks, windowAuth, currentUsername, sidebarLabel,
                   authStarted, authWriter>>

\* a component using useAzureAuth mounts: checkAuth runs up to its await
\* (useAzureAuth.tsx 30-36)
AuthHookMounts ==
    /\ UNCHANGED notAuth
    /\ AuthStart("useAzureAuth")
    /\ UNCHANGED <<azLoggedIn, windowAuth, currentUsername, sidebarLabel,
                   isWindowFocused, authWriter>>

\* the user logs in or out with the Azure CLI
AccountChanges ==
    /\ UNCHANGED notAuth
    /\ azLoggedIn' = ~azLoggedIn
    /\ UNCHANGED <<authChecks, windowAuth, currentUsername, sidebarLabel,
                   isWindowFocused, authStarted, authWriter>>

\* the `az account show` of a check reads the account
AuthAzAnswers(c) ==
    /\ UNCHANGED notAuth
    /\ c \in authChecks
    /\ ~c.answered
    /\ authChecks' = (authChecks \ {c})
                        \cup {[c EXCEPT !.answered = TRUE, !.status = StatusOf(azLoggedIn)]}
    /\ UNCHANGED <<azLoggedIn, windowAuth, currentUsername, sidebarLabel,
                   isWindowFocused, authStarted, authWriter>>

\* the rest of updateAzureAccountLabel (index.tsx 100-137)
LabelContinues(status) ==
    /\ windowAuth' = AuthStatusOf(status)
    /\ IF status.isLoggedIn /\ status.username # Undefined /\ status.username # ""
       THEN LET displayName == BeforeAt(status.username)
            IN IF currentUsername # displayName
               THEN currentUsername' = displayName /\ sidebarLabel' = displayName
               ELSE UNCHANGED <<currentUsername, sidebarLabel>>
       ELSE IF currentUsername # Undefined
       THEN currentUsername' = Undefined /\ sidebarLabel' = "Azure Account"
       ELSE UNCHANGED <<currentUsername, sidebarLabel>>

\* the rest of checkAuth (useAzureAuth.tsx 36-62), as far as it touches
\* state outside its component
HookContinues(status) ==
    /\ windowAuth' = AuthStatusOf(status)
    /\ UNCHANGED <<currentUsername, sidebarLabel>>

\* the getLoginStatus promise of a check resolves and the check runs to its end
AuthResolves(c) ==
    /\ UNCHANGED notAuth
    /\ c \in authChecks
    /\ c.answered
    /\ authChecks' = authChecks \ {c}
    /\ authWriter' = c.id
    /\ IF c.kind = "label" THEN LabelContinues(c.status) ELSE HookContinues(c.status)
    /\ UNCHANGED <<azLoggedIn, isWindowFocused, authStarted>>

NextAuth ==
    \/ AuthTimerFires
    \/ AuthUpdateEvent
    \/ AuthFocus
    \/ AuthBlur
    \/ AuthHookMounts
    \/ AccountChanges
    \/ \E c \in authChecks : AuthAzAnswers(c)
    \/ \E c \in authChecks : AuthResolves(c)

---------------------------------------------------------------------------
(* URLSearchParams, as used by useDeployUrlParams.  The queries used hold  *)
(* letters, digits, '-', '=', '&' and '+', so percent-encoding never       *)
(* applies; '+' stands for a space.                                        *)

\* the index of the first `sep` in s, or 0
FirstIndex(s, sep) ==
    IF \E i \in 1..Len(s) : SubSeq(s, i, i) = sep
    THEN CHOOSE i \in 1..Len(s) :
            SubSeq(s, i, i) = sep /\ \A j \in 1..(i - 1) : SubSeq(s, j, j) # sep
    ELSE 0

\* s.split(sep)
RECURSIVE Split(_, _)
Split(s, sep) ==
    LET i == FirstIndex(s, sep)
    IN IF i = 0 THEN <<s>>
       ELSE <<SubSeq(s, 1, i - 1)>> \o Split(SubSeq(s, i + 1, Len(s)), sep)

\* every occurrence of the character `from` replaced by `to`
RECURSIVE ReplaceChar(_, _, _)
ReplaceChar(s, from, to) ==
    IF Len(s) = 0 THEN ""
    ELSE (IF SubSeq(s, 1, 1) = from THEN to ELSE SubSeq(s, 1, 1))
            \o ReplaceChar(SubSeq(s, 2, Len(s)), from, to)

\* one name=value piece of a query, decoded
ParsePair(piece) ==
    LET i == FirstIndex(piece, "=")
        name == IF i = 0 THEN piece ELSE SubSeq(piece, 1, i - 1)
        value == IF i = 0 THEN "" ELSE SubSeq(piece, i + 1, Len(piece))
    IN <<ReplaceChar(name, "+", " "), ReplaceChar(value, "+", " ")>>

RECURSIVE ParsePieces(_)
ParsePieces(pieces) ==
    IF pieces = <<>> THEN <<>>
    ELSE (IF Head(pieces) = "" THEN <<>> ELSE <<ParsePair(Head(pieces))>>)
            \o ParsePieces(Tail(pieces))

\* new URLSearchParams(search): the list of <<name, value>> pairs
URLSearchParams(search) ==
    LET q == IF Len(search) > 0 /\ SubSeq(search, 1, 1) = "?"
             THEN SubSeq(search, 2, Len(search)) ELSE search
    IN ParsePieces(Split(q, "&"))

\* searchParams.get(name): the first value, or null
SearchParamsGet(params, name) ==
    IF \E i \in DOMAIN params : params[i][1] = name
    THEN params[CHOOSE i \in DOMAIN params :
                   params[i][1] = name /\ \A j \in 1..(i - 1) : params[j][1] # name][2]
    ELSE Undefined

\* searchParams.delete(name): every pair of that name removed
SearchParamsDelete(params, name) == SelectSeq(params, LAMBDA p : p[1] # name)

\* searchParams.toString()
RECURSIVE SearchParamsToString(_)
SearchParamsToString(params) ==
    IF params = <<>> THEN ""
    ELSE ReplaceChar(Head(params)[1], " ", "+") \o "=" \o ReplaceChar(Head(params)[2], " ", "+")
            \o (IF Len(params) > 1 THEN "&" ELSE "")
            \o SearchParamsToString(Tail(params))

---------------------------------------------------------------------------
(* useDialogState, useDeployUrlParams and DeployButton                     *)

\* how many times the location is changed from outside after the mount
MaxNav == 1

Pathnames == {"/project/123", "/project/abc"}

\* the queries a page is opened with
Searches ==
    { "",
      "?openDeploy=true",
      "?openDeploy=false",
      "?openDeploy=TRUE",
      "?openDeploy",
      "?applicationName=app",
      "?openDeploy=true&applicationName=my-app",
      "?openDeploy=true&applicationName=",
      "?openDeploy=true&foo=bar",
      "?foo=my+app&openDeploy=true&applicationName=app&baz=1",
      "?openDeploy=false&openDeploy=true&applicationName=app",
      "?openDeploy=true&openDeploy=false&applicationName=a&&applicationName=b&foo" }

NoCall == [fn |-> "none", arg |-> Undefined, open |-> FALSE, name |-> Undefined]

\* whether a query has a parameter openDeploy with the value 'true'
HasOpenDeploy(search) ==
    \E i \in DOMAIN URLSearchParams(search) :
        URLSearchParams(search)[i] = <<"openDeploy", "true">>

\* the state after the first render of DeployButton, before its effects run
DepInitial ==
    /\ locSearch \in Searches
    /\ locPathname \in Pathnames
    /\ shouldOpenDialog = FALSE
    /\ urlAppName = Undefined
    /\ urlDeps = <<Undefined, Undefined>>
    /\ dlgOpen = FALSE
    /\ dlgAppName = Undefined
    /\ btnDeps = [ran |-> FALSE, shouldOpenDialog |-> FALSE, name |-> Undefined]
    /\ replaced = <<>>
    /\ lastCall = NoCall
    /\ navs = 0
    /\ visits = IF HasOpenDeploy(locSearch) THEN 1 ELSE 0
    /\ deepOpens = 0

\* a variant that keeps the previous name when none is given
openDialogKeepsName(appName) ==
    /\ dlgOpen' = TRUE
    /\ dlgAppName' = IF appName = Undefined THEN dlgAppName ELSE appName
\* openDialog (useDialogState.ts 31-34)
openDialog(appName) ==
    /\ dlgOpen' = TRUE
    /\ dlgAppName' = appName

\* a variant that leaves the name in place
closeDialogKeepsName ==
    /\ dlgOpen' = FALSE
    /\ UNCHANGED dlgAppName
\* closeDialog (useDialogState.ts 36-39)
closeDialog ==
    /\ dlgOpen' = FALSE
    /\ dlgAppName' = Undefined

\* the callback invoked, its argument, and the dialog state it was invoked in
Called(fn, arg) == lastCall' = [fn |-> fn, arg |-> arg, open |-> dlgOpen, name |-> dlgAppName]

\* a variant that resets the flag only
clearUrlTriggerKeepsName ==
    /\ shouldOpenDialog' = FALSE
    /\ UNCHANGED urlAppName
\* clearUrlTrigger (useDeployUrlParams.ts 54-57)
clearUrlTrigger ==
    /\ shouldOpenDialog' = FALSE
    /\ urlAppName' = Undefined

\* a variant that accepts any non-empty value
OpenDeployTruthy(openDeploy) == openDeploy # Undefined /\ openDeploy # ""
\* the test `openDeploy === 'true'` (useDeployUrlParams.ts 41)
OpenDeployRequested(openDeploy) == openDeploy = "true"

\* a variant that removes openDeploy only
CleanedKeepsName(params) == SearchParamsDelete(params, "openDeploy")
\* a variant that removes applicationName only
CleanedKeepsOpenDeploy(params) == SearchParamsDelete(params, "applicationName")
\* the two deletes (useDeployUrlParams.ts 46-47)
Cleaned(params) ==
    SearchParamsDelete(SearchParamsDelete(params, "openDeploy"), "applicationName")

\* the path handed to history.replace (useDeployUrlParams.ts 48-49)
NewPath(params, pathname) ==
    LET newSearch == SearchParamsToString(Cleaned(params))
    IN IF newSearch # "" THEN pathname \o "?" \o newSearch ELSE pathname

\* history.replace(path): the location becomes the path's pathname and search
HistoryReplace(path) ==
    LET i == FirstIndex(path, "?")
    IN /\ locPathname' = IF i = 0 THEN path ELSE SubSeq(path, 1, i - 1)
       /\ locSearch' = IF i = 0 THEN "" ELSE SubSeq(path, i, Len(path))
       /\ replaced' = Append(replaced, path)

UrlEffectPending == urlDeps # <<locSearch, locPathname>>
ButtonEffectPending ==
    btnDeps # [ran |-> TRUE, shouldOpenDialog |-> shouldOpenDialog, name |-> urlAppName]

\* the effect of useDeployUrlParams runs, its dependencies having changed
\* (useDeployUrlParams.ts 36-52)
DepUrlEffect ==
    /\ UNCHANGED notDep
    /\ UrlEffectPending
    /\ urlDeps' = <<locSearch, locPathname>>
    /\ LET searchParams == URLSearchParams(locSearch)
           openDeploy == SearchParamsGet(searchParams, "openDeploy")
           applicationName == SearchParamsGet(searchParams, "applicationName")
       IN IF OpenDeployRequested(openDeploy)
          THEN /\ shouldOpenDialog' = TRUE
               /\ urlAppName' = applicationName
               /\ HistoryReplace(NewPath(searchParams, locPathname))
          ELSE UNCHANGED <<shouldOpenDialog, urlAppName, locSearch, locPathname, replaced>>
    /\ UNCHANGED <<dlgOpen, dlgAppName, btnDeps, lastCall, navs, visits, deepOpens>>

\* the effect of DeployButton runs, its dependencies having changed
\* (DeployButton.tsx 391-401)
DepButtonEffect ==
    /\ UNCHANGED notDep
    /\ ButtonEffectPending
    /\ btnDeps' = [ran |-> TRUE, shouldOpenDialog |-> shouldOpenDialog, name |-> urlAppName]
    /\ IF shouldOpenDialog
       THEN /\ openDialog(urlAppName)
            /\ Called("openDialog", urlAppName)
            /\ clearUrlTrigger
            /\ deepOpens' = deepOpens + 1
       ELSE UNCHANGED <<dlgOpen, dlgAppName, lastCall, shouldOpenDialog, urlAppName,
                        deepOpens>>
    /\ UNCHANGED <<locSearch, locPathname, urlDeps, replaced, navs, visits>>

\* the Deploy Application button, which the open dialog covers
\* (DeployButton.tsx 403-405)
DepClickOpen ==
    /\ UNCHANGED notDep
    /\ ~UrlEffectPending /\ ~ButtonEffectPending
    /\ ~dlgOpen
    /\ openDialog(Undefined)
    /\ Called("openDialog", Undefined)
    /\ UNCHANGED <<locSearch, locPathname, shouldOpenDialog, urlAppName, urlDeps,
                   btnDeps, replaced, navs, visits, deepOpens>>

\* handleClose, from the dialog or the wizard (DeployButton.tsx 407-409)
DepClose ==
    /\ UNCHANGED notDep
    /\ ~UrlEffectPending /\ ~ButtonEffectPending
    /\ closeDialog
    /\ Called("closeDialog", Undefined)
    /\ UNCHANGED <<locSearch, locPathname, shouldOpenDialog, urlAppName, urlDeps,
                   btnDeps, replaced, navs, visits, deepOpens>>

\* the router changes the location: a link or a deep link is followed
DepNavigate(search, pathname) ==
    /\ UNCHANGED notDep
    /\ ~UrlEffectPending /\ ~ButtonEffectPending
    /\ navs < MaxNav
    /\ navs' = navs + 1
    /\ locSearch' = search
    /\ locPathname' = pathname
    /\ visits' = visits + IF HasOpenDeploy(search) THEN 1 ELSE 0
    /\ UNCHANGED <<shouldOpenDialog, urlAppName, urlDeps, dlgOpen, dlgAppName, btnDeps,
                   replaced, lastCall, deepOpens>>

NextDep ==
    \/ DepUrlEffect
    \/ DepButtonEffect
    \/ DepClickOpen
    \/ DepClose
    \/ \E search \in Searches, pathname \in Pathnames : DepNavigate(search, pathname)

---------------------------------------------------------------------------
(* CreateAKSProject.handleSubmit: the Create Project workflow              *)

maxRetries == 8
finalAttempts == 2

\* mapUIRoleToAzureRole (types.ts 217-225)
mapUIRoleToAzureRole(uiRole) ==
    CASE uiRole = "Admin" -> "Azure Kubernetes Service RBAC Admin"
      [] uiRole = "Writer" -> "Azure Kubernetes Service RBAC Writer"
      [] uiRole = "Reader" -> "Azure Kubernetes Service RBAC Reader"
      [] OTHER -> uiRole

\* rolesToAssign (CreateAKSProject.tsx 282-286)
rolesToAssign(uiRole) ==
    << mapUIRoleToAzureRole(uiRole),
       "Azure Kubernetes Service Namespace User",
       "Azure Kubernetes Service Namespace Contributor" >>

\* validAssignments (CreateAKSProject.tsx 261-263)
validAssignments(assignments) ==
    SelectSeq(assignments, LAMBDA assignment : Trim(assignment.email) # "")

\* checkNamespaceExists (az-cli.ts 1818-1900) applied to what az answered;
\* the stdout shapes are those of ListOutputs
checkNamespaceExists(out) ==
    IF out.stderr # "" /\ needsRelogin(out.stderr)
    THEN [exists |-> FALSE,
          error |-> "Authentication required. Please log in to Azure CLI: az login"]
    ELSE IF out.stderr # "" /\ HasErrorText(out.stderr)
    THEN [exists |-> FALSE,
          error |-> "Failed to check namespace existence: " \o out.stderr]
    ELSE IF out.stdout.json = "invalid"
    THEN [exists |-> FALSE,
          error |-> "Failed to parse namespace existence response: SyntaxError"]
    ELSE [exists |-> out.stdout.json \in {"noState", "nonString", "state"},
          error |-> Undefined]

\* stdout of `az role assignment list -o json`, by the shape JSON.parse gives
\* it: "empty" (no output), "invalid", "null", "object", "emptyArray", "array"
RoleListShapes == {"empty", "invalid", "null", "object", "emptyArray", "array"}

\* the part of verifyNamespaceAccess that follows `role assignment list`
\* (az-cli.ts 2548-2589); `null.length` throws inside the inner try
verifyListResult(out) ==
    IF out.stderr # "" /\ needsRelogin(out.stderr)
    THEN [success |-> FALSE, hasAccess |-> FALSE,
          error |-> "Authentication required. Please log in to Azure CLI: az login"]
    ELSE IF out.stderr # "" /\ HasErrorText(out.stderr)
    THEN [success |-> FALSE, hasAccess |-> FALSE,
          error |-> "Failed to check role assignments: " \o out.stderr]
    ELSE IF out.stdout \in {"invalid", "null"}
    THEN [success |-> FALSE, hasAccess |-> FALSE,
          error |-> "Failed to parse role assignments response"]
    ELSE [success |-> TRUE, hasAccess |-> out.stdout = "array", error |-> Undefined]

\* the forms submitted: no assignee, the default entry left blank
\* (types.ts 198), one assignee, an entry of blanks beside a filled one, and
\* two assignees of whom one has a role that is no UI role
Forms ==
    { <<>>,
      << [email |-> "", role |-> "Writer"] >>,
      << [email |-> "ada@x.io", role |-> "Writer"] >>,
      << [email |-> " ", role |-> "Reader"], [email |-> "ada@x.io", role |-> "Admin"] >>,
      << [email |-> "ada@x.io", role |-> "Reader"], [email |-> "bob@x.io", role |-> "Owner"] >> }

\* what az answers to the commands of one submission
SubAddOutputs == { [stdout |-> "{}", stderr |-> e] : e \in {"", "ERROR: x"} }
SubStatusOutputs ==
    { [stdout |-> [json |-> "state", state |-> s], stderr |-> ""] :
        s \in {"Succeeded", "Creating", "Failed"} }
ExistsOutputs ==
    { [stdout |-> [json |-> j, state |-> ""], stderr |-> ""] :
        j \in {"emptyArray", "noState", "invalid"} }
    \cup { [stdout |-> [json |-> "emptyArray", state |-> ""], stderr |-> "ERROR: x"] }
SubShowOutputs ==
    { [stdout |-> "/subscriptions/s/ns\n", stderr |-> ""],
      [stdout |-> "", stderr |-> ""],
      [stdout |-> "", stderr |-> "ERROR: x"] }
SubRoleOutputs == { [stdout |-> "{}", stderr |-> e] : e \in {"", "WARNING: x", "ERROR: x"} }
RoleListOutputs ==
    { [stdout |-> o, stderr |-> ""] : o \in RoleListShapes }
    \cup { [stdout |-> "array", stderr |-> "ERROR: x"] }

\* the message of the 10-minute timer (CreateAKSProject.tsx 153)
TimeoutMessage ==
    "Project creation timed out after 10 minutes. Please check if the namespace was created and try again."

NoNamespaceResult == [returned |-> FALSE, success |-> FALSE, error |-> Undefined]

\* the state of the wizard before Create Project is pressed
\* (CreateAKSProject.tsx 52-55, types.ts 198)
SubInitial ==
    /\ subPc = "idle"
    /\ subRace = "none"
    /\ timeoutTimer = FALSE
    /\ successTimer = FALSE
    /\ isCreating = FALSE
    /\ creationError = Undefined
    /\ showSuccessDialog = FALSE
    /\ userAssignments = << [email |-> "", role |-> "Writer"] >>
    /\ namespaceResult = NoNamespaceResult
    /\ retryCount = 0
    /\ index = 0
    /\ roleAssignmentResults = <<>>
    /\ assignmentErrors = 0
    /\ finalAttempt = 0
    /\ assigneeLog = <<>>
    /\ lateCommands = {}

\* the local state of creationPromise, with what its next step does: the az
\* command it issues ("none" if none) and the message it rejects with
Frame ==
    [pc |-> subPc, retryCount |-> retryCount, index |-> index,
     results |-> roleAssignmentResults, errors |-> assignmentErrors,
     attempt |-> finalAttempt, log |-> assigneeLog, issue |-> "none",
     reject |-> Undefined]

\* the final verification starts (CreateAKSProject.tsx 379-393)
StartFinal(f) ==
    [f EXCEPT !.pc = "finalExists", !.attempt = 0, !.issue = "namespace check"]

\* the body of the assignee loop starts for validAssignments[i], up to the
\* first createNamespaceRoleAssignment (CreateAKSProject.tsx 271-300)
StartAssignee(f, i) ==
    [f EXCEPT !.pc = "roleShow", !.index = i, !.results = <<>>,
              !.issue = "role assignment"]

\* a variant that reports success whatever the assignees' errors
AfterAssigneesIgnoresErrors(f) == StartFinal(f)
\* the report after the loop (CreateAKSProject.tsx 365-374)
AfterAssignees(f) ==
    IF f.errors > 0
    THEN [f EXCEPT !.pc = "rejected", !.reject = "User assignment completed with errors"]
    ELSE StartFinal(f)

\* the loop head `index < validAssignments.length` (CreateAKSProject.tsx 271)
NextAssignee(f) ==
    IF f.index < Len(validAssignments(userAssignments))
    THEN StartAssignee(f, f.index + 1)
    ELSE AfterAssignees(f)

\* Step 2 starts (CreateAKSProject.tsx 258-266, 375-377)
StartAssignments(f) ==
    IF Len(validAssignments(userAssignments)) > 0
    THEN StartAssignee(f, 1)
    ELSE StartFinal(f)

\* the assignee the loop is at
Assignee(f) == validAssignments(userAssignments)[f.index]

\* the roles of rolesToAssign whose assignment succeeded
RolesAssigned(uiRole, results) ==
    { rolesToAssign(uiRole)[k] : k \in {j \in DOMAIN results : results[j]} }

\* one createNamespaceRoleAssignment has returned: the inner loop goes on,
\* and after the third role the failed ones are looked at
\* (CreateAKSProject.tsx 290-336)
RoleDone(f, success) ==
    LET results == Append(f.results, success)
        entry == [email |-> Assignee(f).email,
                  roles |-> RolesAssigned(Assignee(f).role, results),
                  access |-> FALSE]
    IN IF Len(results) < Len(rolesToAssign(Assignee(f).role))
       THEN [f EXCEPT !.results = results, !.pc = "roleShow",
                      !.issue = "role assignment"]
       ELSE IF \E k \in DOMAIN results : ~results[k]
       THEN NextAssignee([f EXCEPT !.results = results, !.errors = @ + 1,
                                   !.log = Append(@, entry)])
       ELSE [f EXCEPT !.results = results, !.pc = "verifyShow",
                      !.issue = "access verification"]

\* verifyNamespaceAccess has returned (CreateAKSProject.tsx 345-357)
VerifyDone(f, r) ==
    LET entry == [email |-> Assignee(f).email,
                  roles |-> RolesAssigned(Assignee(f).role, f.results),
                  access |-> r.success /\ r.hasAccess]
    IN NextAssignee([f EXCEPT !.errors = IF r.success /\ r.hasAccess THEN @ ELSE @ + 1,
                              !.log = Append(@, entry)])

\* a variant that shows the error and stays in the creating state
ShowErrorKeepsCreating(message) ==
    /\ subRace' = "failed"
    /\ creationError' = message
    /\ UNCHANGED isCreating
\* the catch block of handleSubmit (CreateAKSProject.tsx 429-439)
ShowError(message) ==
    /\ subRace' = "failed"
    /\ creationError' = message
    /\ isCreating' = FALSE

\* creationPromise runs on to frame f.  When it settles while handleSubmit
\* still awaits the race, handleSubmit goes on at once: to the 2-second timer
\* (CreateAKSProject.tsx 422-428) or to its catch block
Continue(f) ==
    /\ subPc' = f.pc
    /\ retryCount' = f.retryCount
    /\ index' = f.index
    /\ roleAssignmentResults' = f.results
    /\ assignmentErrors' = f.errors
    /\ finalAttempt' = f.attempt
    /\ assigneeLog' = f.log
    /\ lateCommands' = IF f.issue # "none" /\ creationError # Undefined
                       THEN lateCommands \cup {f.issue}
                       ELSE lateCommands
    /\ IF f.pc = "resolved" /\ subRace = "pending"
       THEN /\ subRace' = "won"
            /\ successTimer' = TRUE
            /\ UNCHANGED <<isCreating, creationError>>
       ELSE IF f.pc = "rejected" /\ subRace = "pending"
       THEN /\ ShowError(f.reject)
            /\ UNCHANGED successTimer
       ELSE UNCHANGED <<subRace, successTimer, isCreating, creationError>>
    /\ UNCHANGED <<timeoutTimer, showSuccessDialog, userAssignments>>

\* Create Project is pressed: handleSubmit runs up to the race, and
\* creationPromise up to the first await inside createManagedNamespace
\* (CreateAKSProject.tsx 135-180)
SubSubmit(form) ==
    /\ UNCHANGED notSub
    /\ subPc = "idle"
    /\ nsPc = "start"
    /\ userAssignments' = form
    /\ isCreating' = TRUE
    /\ creationError' = Undefined
    /\ timeoutTimer' = TRUE
    /\ subRace' = "pending"
    /\ subPc' = "namespace"
    /\ nsPc' = "add"
    /\ UNCHANGED <<nsAttempt, nsInit, nsStatus, nsResult, nsPolls, nsWaited>>
    /\ UNCHANGED <<successTimer, showSuccessDialog, namespaceResult, retryCount, index,
                   roleAssignmentResults, assignmentErrors, finalAttempt, assigneeLog,
                   lateCommands>>

\* the 10-minute timer fires (CreateAKSProject.tsx 149-157); nothing clears it
SubTimeoutFires ==
    /\ UNCHANGED notSub
    /\ UNCHANGED nsVars
    /\ timeoutTimer
    /\ timeoutTimer' = FALSE
    /\ IF subRace = "pending"
       THEN ShowError(TimeoutMessage)
       ELSE UNCHANGED <<subRace, creationError, isCreating>>
    /\ UNCHANGED <<subPc, successTimer, showSuccessDialog, userAssignments, namespaceResult,
                   retryCount, index, roleAssignmentResults, assignmentErrors,
                   finalAttempt, assigneeLog, lateCommands>>

\* the 2-second timer of the success path fires (CreateAKSProject.tsx 425-428)
SubSuccessTimerFires ==
    /\ UNCHANGED notSub
    /\ UNCHANGED nsVars
    /\ successTimer
    /\ successTimer' = FALSE
    /\ isCreating' = FALSE
    /\ showSuccessDialog' = TRUE
    /\ UNCHANGED <<subPc, subRace, timeoutTimer, creationError, userAssignments,
                   namespaceResult, retryCount, index, roleAssignmentResults,
                   assignmentErrors, finalAttempt, assigneeLog, lateCommands>>

\* a variant that goes on whatever createManagedNamespace returned
NamespaceFailedNever(result) == FALSE
\* the test `!namespaceResult.success` (CreateAKSProject.tsx 182)
NamespaceFailed(result) == ~result.success

\* createManagedNamespace has returned and creationPromise goes on
\* (CreateAKSProject.tsx 163-197); the frame of the call is gone
SubNamespaceReturns ==
    /\ UNCHANGED notSub
    /\ subPc = "namespace"
    /\ nsPc = "done"
    /\ namespaceResult' = [returned |-> TRUE, success |-> nsResult.success,
                           error |-> nsResult.error]
    /\ nsPc' = "returned"
    /\ nsAttempt' = 0
    /\ nsInit' = [stdout |-> "", stderr |-> ""]
    /\ nsStatus' = NoStatus
    /\ nsResult' = NoResult
    /\ nsPolls' = 0
    /\ nsWaited' = <<>>
    /\ IF NamespaceFailed(nsResult)
       THEN Continue([Frame EXCEPT
                !.pc = "rejected",
                !.reject = "Namespace creation failed: " \o
                           (IF nsResult.error \in {Undefined, ""} THEN "Unknown error"
                            ELSE nsResult.error)])
       ELSE Continue([Frame EXCEPT !.pc = "propagate"])

\* a timer creationPromise awaits fires: the 5 seconds before the first check,
\* the 4 seconds between checks, the 2 seconds before the second final check
\* (CreateAKSProject.tsx 197-219, 237, 386-393, 404)
SubTimerFires ==
    /\ UNCHANGED notSub
    /\ UNCHANGED nsVars
    /\ subPc \in {"propagate", "retryWait", "finalWait"}
    /\ UNCHANGED namespaceResult
    /\ Continue([Frame EXCEPT
            !.pc = IF subPc = "finalWait" THEN "finalExists" ELSE "exists",
            !.issue = "namespace check"])

\* checkNamespaceExists of the verification loop resolves
\* (CreateAKSProject.tsx 214-258)
SubExistsResolves(out) ==
    /\ UNCHANGED notSub
    /\ UNCHANGED nsVars
    /\ subPc = "exists"
    /\ UNCHANGED namespaceResult
    /\ LET result == checkNamespaceExists(out)
       IN IF result.error # Undefined
          THEN Continue([Frame EXCEPT
                   !.pc = "rejected",
                   !.reject = "Namespace status verification failed: Namespace status check failed: "
                              \o result.error])
          ELSE IF result.exists
          THEN Continue(StartAssignments(Frame))
          ELSE IF retryCount + 1 < maxRetries
          THEN Continue([Frame EXCEPT !.retryCount = @ + 1, !.pc = "retryWait"])
          ELSE Continue(StartAssignments([Frame EXCEPT !.retryCount = @ + 1]))

\* `az aks namespace show` of createNamespaceRoleAssignment resolves
\* (az-cli.ts 2358-2412): the call returns a failure or issues
\* `az role assignment create`
SubRoleShowResolves(out) ==
    /\ UNCHANGED notSub
    /\ UNCHANGED nsVars
    /\ subPc = "roleShow"
    /\ UNCHANGED namespaceResult
    /\ IF ShowFailure(out) # Undefined
       THEN Continue(RoleDone(Frame, FALSE))
       ELSE Continue([Frame EXCEPT !.pc = "roleCreate", !.issue = "role assignment"])

\* `az role assignment create` resolves and createNamespaceRoleAssignment
\* returns (az-cli.ts 2412-2436, CreateAKSProject.tsx 293-333)
SubRoleCreateResolves(out) ==
    /\ UNCHANGED notSub
    /\ UNCHANGED nsVars
    /\ subPc = "roleCreate"
    /\ UNCHANGED namespaceResult
    /\ Continue(RoleDone(Frame, createRoleResult(out).success))

\* `az aks namespace show` of verifyNamespaceAccess resolves
\* (az-cli.ts 2493-2549): the same three tests as in
\* createNamespaceRoleAssignment, then `az role assignment list`
SubVerifyShowResolves(out) ==
    /\ UNCHANGED notSub
    /\ UNCHANGED nsVars
    /\ subPc = "verifyShow"
    /\ UNCHANGED namespaceResult
    /\ IF ShowFailure(out) # Undefined
       THEN Continue(VerifyDone(Frame, [success |-> FALSE, hasAccess |-> FALSE,
                                        error |-> ShowFailure(out)]))
       ELSE Continue([Frame EXCEPT !.pc = "verifyList", !.issue = "access verification"])

\* `az role assignment list` resolves and verifyNamespaceAccess returns
\* (az-cli.ts 2549-2589, CreateAKSProject.tsx 337-357)
SubVerifyListResolves(out) ==
    /\ UNCHANGED notSub
    /\ UNCHANGED nsVars
    /\ subPc = "verifyList"
    /\ UNCHANGED namespaceResult
    /\ Continue(VerifyDone(Frame, verifyListResult(out)))

\* checkNamespaceExists of the final verification resolves
\* (CreateAKSProject.tsx 386-419)
SubFinalResolves(out) ==
    /\ UNCHANGED notSub
    /\ UNCHANGED nsVars
    /\ subPc = "finalExists"
    /\ UNCHANGED namespaceResult
    /\ LET result == checkNamespaceExists(out)
       IN IF result.error # Undefined
          THEN Continue([Frame EXCEPT
                   !.pc = "rejected",
                   !.reject = "Final status verification failed: Final status check failed: "
                              \o result.error])
          ELSE IF result.exists
          THEN Continue([Frame EXCEPT !.pc = "resolved"])
          ELSE IF finalAttempt + 1 < finalAttempts
          THEN Continue([Frame EXCEPT
                   !.attempt = @ + 1,
                   !.pc = IF finalAttempt = 0 THEN "finalWait" ELSE "finalExists",
                   !.issue = IF finalAttempt = 0 THEN "none" ELSE "namespace check"])
          ELSE Continue([Frame EXCEPT !.attempt = @ + 1, !.pc = "resolved"])

NextSub ==
    \/ \E form \in Forms : SubSubmit(form)
    \/ \E out \in SubAddOutputs : NsAddResolves(out)
    \/ NsTimerFires
    \/ \E out \in SubStatusOutputs : NsStatusResolves(out)
    \/ SubNamespaceReturns
    \/ SubTimerFires
    \/ \E out \in ExistsOutputs : SubExistsResolves(out)
    \/ \E out \in SubShowOutputs : SubRoleShowResolves(out)
    \/ \E out \in SubRoleOutputs : SubRoleCreateResolves(out)
    \/ \E out \in SubShowOutputs : SubVerifyShowResolves(out)
    \/ \E out \in RoleListOutputs : SubVerifyListResolves(out)
    \/ \E out \in ExistsOutputs : SubFinalResolves(out)
    \/ SubTimeoutFires
    \/ SubSuccessTimerFires

---------------------------------------------------------------------------
(* runCommandAsync                                                         *)

\* how many 'data' events one command delivers
MaxData == 2

\* the chunks the two streams deliver
StdoutChunks == {"{}", "[]\n"}
StderrChunks == {"WARNING: x", "ERROR: x"}

\* exit codes, and the codes of the 'error' event
ExitCodes == {0, 1, 127}

\* what starting the process can throw: an Error with a message, or a value
\* that is no Error
Thrown == { [isError |-> TRUE, message |-> "spawn az ENOENT"],
            [isError |-> FALSE, message |-> "boom"] }

Pending == [state |-> "pending", value |-> Undefined]

RunInitial ==
    /\ runPc = "idle"
    /\ runStdout = ""
    /\ runStderr = ""
    /\ runPromise = Pending
    /\ runEvents = <<>>
    /\ runData = 0

\* resolve(value): a promise settles once
Resolve(value) ==
    runPromise' = IF runPromise.state = "pending"
                  THEN [state |-> "resolved", value |-> value]
                  ELSE runPromise

\* what an exception leaving the executor does to the promise
Reject(reason) ==
    runPromise' = IF runPromise.state = "pending"
                  THEN [state |-> "rejected", value |-> reason]
                  ELSE runPromise

\* a variant without the try block around the executor's body
OnSyncErrorRejects(error) == Reject(error.message)
\* the catch block (az-cli.ts 79-84)
OnSyncError(error) ==
    Resolve([stdout |-> "",
             stderr |-> "Failed to execute command: " \o
                        (IF error.isError THEN error.message ELSE "Unknown error")])

\* the call when pluginRunCommand is undefined (az-cli.ts 36-47)
RunUnavailable ==
    /\ UNCHANGED notRun
    /\ runPc = "idle"
    /\ runPc' = "returned"
    /\ runEvents' = Append(runEvents, [kind |-> "unavailable", code |-> 0])
    /\ Resolve([stdout |-> "",
                stderr |-> "pluginRunCommand is not available. This feature may not be supported in the current environment."])
    /\ UNCHANGED <<runStdout, runStderr, runData>>

\* the call when starting the process throws (az-cli.ts 49-61, 79-84)
RunStartThrows(error) ==
    /\ UNCHANGED notRun
    /\ runPc = "idle"
    /\ runPc' = "returned"
    /\ runEvents' = Append(runEvents, [kind |-> "threw", code |-> 0])
    /\ OnSyncError(error)
    /\ UNCHANGED <<runStdout, runStderr, runData>>

\* the call when the process starts: the listeners are registered
\* (az-cli.ts 49-78)
RunStart ==
    /\ UNCHANGED notRun
    /\ runPc = "idle"
    /\ runPc' = "running"
    /\ UNCHANGED <<runStdout, runStderr, runPromise, runEvents, runData>>

\* a 'data' event of stdout (az-cli.ts 66)
RunStdoutData(data) ==
    /\ UNCHANGED notRun
    /\ runPc = "running"
    /\ runData < MaxData
    /\ runData' = runData + 1
    /\ runStdout' = runStdout \o data
    /\ UNCHANGED <<runPc, runStderr, runPromise, runEvents>>

\* a 'data' event of stderr (az-cli.ts 67)
RunStderrData(data) ==
    /\ UNCHANGED notRun
    /\ runPc = "running"
    /\ runData < MaxData
    /\ runData' = runData + 1
    /\ runStderr' = runStderr \o data
    /\ UNCHANGED <<runPc, runStdout, runPromise, runEvents>>

\* the 'exit' event, whatever the exit code (az-cli.ts 69-72)
RunExit(code) ==
    /\ UNCHANGED notRun
    /\ runPc = "running"
    /\ \A i \in DOMAIN runEvents : runEvents[i].kind # "exit"
    /\ runEvents' = Append(runEvents, [kind |-> "exit", code |-> code])
    /\ Resolve([stdout |-> runStdout, stderr |-> runStderr])
    /\ UNCHANGED <<runPc, runStdout, runStderr, runData>>

\* the 'error' event (az-cli.ts 74-77)
RunError(code) ==
    /\ UNCHANGED notRun
    /\ runPc = "running"
    /\ \A i \in DOMAIN runEvents : runEvents[i].kind # "error"
    /\ runEvents' = Append(runEvents, [kind |-> "error", code |-> code])
    /\ Resolve([stdout |-> "", stderr |-> "Command execution code: " \o ToString(code)])
    /\ UNCHANGED <<runPc, runStdout, runStderr, runData>>

NextRun ==
    \/ RunUnavailable
    \/ \E error \in Thrown : RunStartThrows(error)
    \/ RunStart
    \/ \E data \in StdoutChunks : RunStdoutData(data)
    \/ \E data \in StderrChunks : RunStderrData(data)
    \/ \E code \in ExitCodes : RunExit(code)
    \/ \E code \in ExitCodes : RunError(code)

---------------------------------------------------------------------------
(* AKSProjectDeleteButton: the delete dialog and handleDelete              *)

\* project.namespaces of the project shown
Projects == { <<"ns1">>, <<"ns1", "ns2">> }

\* what apiGet can deliver for one namespace: nothing (the error callback),
\* a namespace labelled as managed by aks-desktop, or one that is not
Fetched == {"null", "managed", "regular"}

\* what a rejected Kubernetes request throws: an Error, or a value that is none
K8sErrors == { [isError |-> TRUE, message |-> "Conflict"],
               [isError |-> FALSE, message |-> ""] }

DelInitial ==
    /\ delPc = "idle"
    /\ open = FALSE
    /\ deleting = FALSE
    /\ deleteNamespaces = FALSE
    /\ delClosure = FALSE
    /\ projectNamespaces \in Projects
    /\ namespaces = <<>>
    /\ delIndex = 0
    /\ armLog = <<>>
    /\ k8sRequests = <<>>
    /\ delPushed = 0
    /\ delAlerts = <<>>

\* what a step of handleDelete leaves behind
DelFrame ==
    [pc |-> delPc, open |-> open, deleting |-> deleting, index |-> delIndex,
     requests |-> k8sRequests, pushed |-> delPushed, alerts |-> delAlerts]

\* the finally block
DelFinally(f) == [f EXCEPT !.pc = "done", !.deleting = FALSE, !.open = FALSE]

\* the catch block, then the finally block
DelCatch(f, error) ==
    DelFinally([f EXCEPT !.alerts =
        Append(@, "Error: " \o (IF error.isError THEN error.message ELSE "Unknown error"))])

\* `throw new Error(result.error || 'Failed to delete managed namespace')`
ArmError(result) ==
    [isError |-> TRUE,
     message |-> IF result.error \in {Undefined, ""}
                 THEN "Failed to delete managed namespace" ELSE result.error]

\* the changing request for a namespace: delete it, or put it without the
\* project labels
DelRequest(name) ==
    [name |-> name, kind |-> IF delClosure THEN "delete" ELSE "put"]

\* the for loop from position i on, up to its next await; after the loop,
\* history.push('/') and the finally block
DelLoop(f, list, i) ==
    IF i > Len(list)
    THEN DelFinally([f EXCEPT !.index = i, !.pushed = @ + 1])
    ELSE IF list[i].managed
    THEN [f EXCEPT !.index = i, !.pc = "arm"]
    ELSE [f EXCEPT !.index = i, !.pc = "k8s",
                   !.requests = Append(@, DelRequest(list[i].name))]

\* what follows deleteManagedNamespace's result for namespace name
DelAfterArm(f, name, result) ==
    IF ~result.success
    THEN DelCatch(f, ArmError(result))
    ELSE IF delClosure
    THEN [f EXCEPT !.pc = "k8s", !.requests = Append(@, DelRequest(name))]
    ELSE [f EXCEPT !.pc = "refetch"]

DelContinue(f) ==
    /\ delPc' = f.pc
    /\ open' = f.open
    /\ deleting' = f.deleting
    /\ delIndex' = f.index
    /\ k8sRequests' = f.requests
    /\ delPushed' = f.pushed
    /\ delAlerts' = f.alerts

\* the delete icon: setOpen(true), disabled while deleting
DelIconClick ==
    /\ UNCHANGED notDel
    /\ delPc # "done"
    /\ ~deleting
    /\ ~open
    /\ open' = TRUE
    /\ UNCHANGED <<delPc, deleting, deleteNamespaces, delClosure, projectNamespaces,
                   namespaces, delIndex, armLog, k8sRequests, delPushed, delAlerts>>

\* the Cancel button: setOpen(false); it is not disabled while deleting
DelCancelClick ==
    /\ UNCHANGED notDel
    /\ delPc # "done"
    /\ open
    /\ open' = FALSE
    /\ UNCHANGED <<delPc, deleting, deleteNamespaces, delClosure, projectNamespaces,
                   namespaces, delIndex, armLog, k8sRequests, delPushed, delAlerts>>

\* the check box of the dialog
DelToggleNamespaces ==
    /\ UNCHANGED notDel
    /\ delPc # "done"
    /\ open
    /\ deleteNamespaces' = ~deleteNamespaces
    /\ UNCHANGED <<delPc, open, deleting, delClosure, projectNamespaces,
                   namespaces, delIndex, armLog, k8sRequests, delPushed, delAlerts>>

\* the Delete button, disabled while deleting: handleDelete up to the await
\* of the namespaces
DelConfirm ==
    /\ UNCHANGED notDel
    /\ delPc = "idle"
    /\ open
    /\ ~deleting
    /\ deleting' = TRUE
    /\ delClosure' = deleteNamespaces
    /\ delPc' = "fetch"
    /\ UNCHANGED <<open, deleteNamespaces, projectNamespaces, namespaces, delIndex,
                   armLog, k8sRequests, delPushed, delAlerts>>

\* the namespaces that were found, in the project's order
RECURSIVE Found(_, _)
Found(names, got) ==
    IF names = <<>> THEN <<>>
    ELSE (IF Head(got) = "null" THEN <<>>
          ELSE << [name |-> Head(names), managed |-> (Head(got) = "managed")] >>)
         \o Found(Tail(names), Tail(got))

\* Promise.all of the apiGet calls resolves: the filter, then the loop up to
\* its first await
DelFetched ==
    /\ UNCHANGED notDel
    /\ delPc = "fetch"
    /\ \E got \in [1..Len(projectNamespaces) -> Fetched] :
          namespaces' = Found(projectNamespaces, got)
    /\ DelContinue(DelLoop(DelFrame, namespaces', 1))
    /\ UNCHANGED <<deleteNamespaces, delClosure, projectNamespaces, armLog>>

\* `az aks namespace delete` ends and deleteManagedNamespace returns
DelArmResolves(out) ==
    LET name == namespaces[delIndex].name
        result == deleteManagedNamespace(out)
    IN  /\ UNCHANGED notDel
        /\ delPc = "arm"
        /\ armLog' = Append(armLog, [name |-> name, stderr |-> out.stderr,
                                     success |-> result.success])
        /\ DelContinue(DelAfterArm(DelFrame, name, result))
        /\ UNCHANGED <<deleteNamespaces, delClosure, projectNamespaces, namespaces>>

\* the second apiGet of a managed namespace calls back
DelRefetchResolves ==
    /\ UNCHANGED notDel
    /\ delPc = "refetch"
    /\ DelContinue([DelFrame EXCEPT !.pc = "k8s",
                       !.requests = Append(@, DelRequest(namespaces[delIndex].name))])
    /\ UNCHANGED <<deleteNamespaces, delClosure, projectNamespaces, namespaces, armLog>>

\* ... or its error callback rejects
DelRefetchRejects(error) ==
    /\ UNCHANGED notDel
    /\ delPc = "refetch"
    /\ DelContinue(DelCatch(DelFrame, error))
    /\ UNCHANGED <<deleteNamespaces, delClosure, projectNamespaces, namespaces, armLog>>

\* the Kubernetes delete or put is answered: on with the loop
DelK8sResolves ==
    /\ UNCHANGED notDel
    /\ delPc = "k8s"
    /\ DelContinue(DelLoop(DelFrame, namespaces, delIndex + 1))
    /\ UNCHANGED <<deleteNamespaces, delClosure, projectNamespaces, namespaces, armLog>>

\* ... or it is refused
DelK8sRejects(error) ==
    /\ UNCHANGED notDel
    /\ delPc = "k8s"
    /\ DelContinue(DelCatch(DelFrame, error))
    /\ UNCHANGED <<deleteNamespaces, delClosure, projectNamespaces, namespaces, armLog>>

NextDel ==
    \/ DelIconClick
    \/ DelCancelClick
    \/ DelToggleNamespaces
    \/ DelConfirm
    \/ DelFetched
    \/ \E out \in DeleteOutputs : DelArmResolves(out)
    \/ DelRefetchResolves
    \/ \E error \in K8sErrors : DelRefetchRejects(error)
    \/ DelK8sResolves
    \/ \E error \in K8sErrors : DelK8sRejects(error)

---------------------------------------------------------------------------
(* Specifications                                                          *)

\* one initial state of the parts a specification leaves alone
AuthQuiet == AuthInitial /\ ~azLoggedIn /\ isWindowFocused
DepQuiet == DepInitial /\ locSearch = "" /\ locPathname = "/project/123"
DelQuiet == DelInitial /\ projectNamespaces = <<"ns1">>

Init ==
    NsInitial /\ CliInitial /\ MonInitial /\ LpInitial /\ AuthQuiet /\ DepQuiet /\ SubInitial
    /\ RunInitial /\ DelQuiet
InitAuth ==
    NsInitial /\ CliInitial /\ MonInitial /\ LpInitial /\ AuthInitial /\ DepQuiet /\ SubInitial
    /\ RunInitial /\ DelQuiet
InitDep ==
    NsInitial /\ CliInitial /\ MonInitial /\ LpInitial /\ AuthQuiet /\ DepInitial /\ SubInitial
    /\ RunInitial /\ DelQuiet
InitDel ==
    NsInitial /\ CliInitial /\ MonInitial /\ LpInitial /\ AuthQuiet /\ DepQuiet /\ SubInitial
    /\ RunInitial /\ DelInitial

\* createManagedNamespace alone
SpecNs == Init /\ [][NextNs]_vars
\* ... with the event loop running every continuation whose promise or timer
\* has resolved, and every az command ending
LiveNs == SpecNs /\ WF_vars(NextNs)

\* the wrappers, called in any order
SpecCli == Init /\ [][NextCli]_vars

\* one invocation of monitorLoginStatus
SpecMon == Init /\ [][NextMon]_vars

\* one login attempt on the login page
SpecLp == Init /\ [][NextLp]_vars

\* the login-status checks that keep window.__azureAuthStatus and the sidebar
\* label up to date
SpecAuth == InitAuth /\ [][NextAuth]_vars

\* a mounted DeployButton
SpecDep == InitDep /\ [][NextDep]_vars

\* one call of runCommandAsync
SpecRun == Init /\ [][NextRun]_vars

\* one run of handleDelete from the project's delete dialog
SpecDel == InitDel /\ [][NextDel]_vars

\* one Create Project submission
SpecSub == Init /\ [][NextSub]_vars
\* ... with the two timers of handleSubmit firing; an az command may never end
LiveSub == SpecSub /\ WF_vars(SubTimeoutFires) /\ WF_vars(SubSuccessTimerFires)

---------------------------------------------------------------------------
(* Properties of createManagedNamespace                                    *)

\* the add command's stderr carried neither an error text nor a re-login marker
AddReportedNoError ==
    ~ \E marker \in {"ERROR", "error", "Interactive authentication is needed",
                     "AADSTS700082", "AADSTS50173"} : Includes(nsInit.stderr, marker)

\* the last status poll answered, and its status was none of the three
\* statuses that end the loop
LastPollNonTerminal ==
    /\ nsStatus.success
    /\ nsStatus.status # NonString
    /\ ToLowerCase(nsStatus.status) \notin {"succeeded", "failed", "error"}

\* C1: a call to createManagedNamespace issues at most 60 status polls, awaits
\* exactly one 5000 ms timer between two consecutive polls, and returns.
C1_BoundedPolling ==
    /\ [](/\ nsPolls <= 60
          /\ (nsPc = "status" /\ nsPolls > 1 => nsWaited = <<5000>>)
          /\ (nsPc = "pollWait" => nsWaited = <<>> /\ nsPolls < 60))
    /\ <>(nsPc = "done")

\* the 60th poll was issued after 59 waits, found the namespace still being
\* created, and the call returned
C1_Witness ==
    /\ nsPc = "done"
    /\ nsPolls = 60
    /\ nsStatus.success
    /\ ToLowerCase(nsStatus.status) = "creating"

\* C2: the call returns success: true if and only if the add command reported
\* no error and the last of its at most 60 polls answered 'succeeded' in any
\* letter case; and a poll is followed by another one only if it answered with
\* a non-terminal status, so every poll before the last one was such a poll.
C2_SuccessIffSucceeded ==
    /\ nsPc = "done" =>
         ( nsResult.success <=>
             /\ AddReportedNoError
             /\ nsPolls \in 1..60
             /\ nsStatus.success
             /\ ToLowerCase(nsStatus.status) = "succeeded" )
    /\ nsPc = "pollWait" \/ (nsPc = "status" /\ nsPolls > 1) => LastPollNonTerminal

\* success after several polls whose last one answered in capitals
C2_Witness ==
    /\ nsPc = "done"
    /\ nsResult.success
    /\ nsPolls = 3
    /\ nsStatus.status = "SUCCEEDED"

---------------------------------------------------------------------------
(* Properties of the wrappers                                              *)

\* what the Azure CLI wrote on stderr carries 'ERROR', 'error' or a re-login marker
StderrReportsError(stderr) ==
    \E marker \in {"ERROR", "error", "Interactive authentication is needed",
                   "AADSTS700082", "AADSTS50173"} : Includes(stderr, marker)

\* C3: whenever a command of a managed-namespace wrapper (create, status
\* check, delete, role assignment) ends with an error text or a re-login
\* marker on stderr, the wrapper returns, and returns success: false.
C3_StderrErrorsSurface ==
    (\E i \in DOMAIN cliOut : StderrReportsError(cliOut[i].stderr))
        => cliResult.returned /\ ~cliResult.success

---------------------------------------------------------------------------
(* Properties of monitorLoginStatus                                        *)

\* C4: an invocation of monitorLoginStatus issues at most 60 login-status
\* polls; exactly one intervalMs timer is armed between two consecutive polls;
\* and once the 60th poll has found the user not logged in, the last status
\* reported is 'Login timeout. Please try again.' and no timer is pending.
C4_MonitorBounded ==
    /\ monPolls <= 60
    /\ (monPc = "await" /\ monPolls > 1 => monArmed = <<monInterval>>)
    /\ (monPolls = 60 /\ monPc # "await" /\ ~monStatus.isLoggedIn =>
          /\ monLog # <<>>
          /\ monLog[Len(monLog)] =
                [isLoggedIn |-> FALSE, message |-> "Login timeout. Please try again."]
          /\ monTimers = 0)

\* sixty polls were issued and the last one found nobody logged in
C4_Witness ==
    /\ monPolls = 60
    /\ monPc = "stopped"
    /\ ~monStatus.isLoggedIn
    /\ ~monCancelled
    /\ Len(monLog) = 61

---------------------------------------------------------------------------
(* Properties of the login page                                            *)

\* C5: a login attempt issues at most 60 login-status polls; once the timeout
\* is shown the interval is cleared and loading has ended; and when 60 polls
\* have all resolved without one reporting the user logged in (and without
\* Cancel), the timeout is what the page shows.
C5_LoginPageBounded ==
    /\ lpPolls <= 60
    /\ (errorMessage = "Login timeout. Please try again." => ~lpInterval /\ ~loading)
    /\ (/\ lpPolls >= 60
        /\ lpInFlight = 0
        /\ lpRedirects + lpPushed = 0
        /\ ~lpCancelled
        => /\ errorMessage = "Login timeout. Please try again."
           /\ ~lpInterval
           /\ ~loading)

---------------------------------------------------------------------------
(* Properties of the login-status checks                                   *)

\* the shared variables a check of each kind reads and writes once its
\* getLoginStatus call has resolved
Writes(kind) ==
    IF kind = "label" THEN {"window.__azureAuthStatus", "currentUsername"}
    ELSE {"window.__azureAuthStatus"}
Reads(kind) == IF kind = "label" THEN {"currentUsername"} ELSE {}

\* C6: operations in flight at the same time share no mutable state: no two
\* login-status checks in flight access a variable one of them writes, and a
\* check in flight was started after the last write to
\* window.__azureAuthStatus, the variable it is going to write.
C6_NoSharedMutableState ==
    /\ \A a, b \in authChecks :
          a # b => Writes(a.kind) \cap (Reads(b.kind) \cup Writes(b.kind)) = {}
    /\ \A c \in authChecks : authWriter < c.id

---------------------------------------------------------------------------
(* Properties of the deploy dialog hooks                                   *)

\* C7: before any call the dialog is closed; and whatever state openDialog
\* is called in, afterwards open is true and initialApplicationName is the
\* argument (undefined when it was omitted).
C7_OpenDialog ==
    /\ lastCall.fn = "none" => ~dlgOpen /\ dlgAppName = Undefined
    /\ lastCall.fn = "openDialog" => dlgOpen /\ dlgAppName = lastCall.arg

\* openDialog was called without a name while the dialog was open with one
C7_Witness ==
    /\ lastCall.fn = "openDialog"
    /\ lastCall.arg = Undefined
    /\ lastCall.open
    /\ lastCall.name = "my-app"

\* C8: whatever state closeDialog is called in, afterwards open is false and
\* initialApplicationName is undefined.
C8_CloseDialog ==
    lastCall.fn = "closeDialog" => ~dlgOpen /\ dlgAppName = Undefined

\* closeDialog was called on a dialog opened with an application name
C8_Witness ==
    /\ lastCall.fn = "closeDialog"
    /\ lastCall.open
    /\ lastCall.name = "my-app"
    /\ ~dlgOpen

\* the query parameters of the current location
QueryParams == URLSearchParams(locSearch)

\* the value of the first parameter of that name, read off the list
FirstValue(name) ==
    IF \E i \in DOMAIN QueryParams : QueryParams[i][1] = name
    THEN LET first == CHOOSE i \in DOMAIN QueryParams :
                         /\ QueryParams[i][1] = name
                         /\ \A j \in DOMAIN QueryParams : QueryParams[j][1] = name => i <= j
         IN QueryParams[first][2]
    ELSE Undefined

\* the query's openDeploy parameter is exactly 'true'
OpenDeployIsTrue == FirstValue("openDeploy") = "true"

\* the URL effect runs in this step
UrlEffectRuns == urlDeps' # urlDeps

\* C9: shouldOpenDialog and initialApplicationName start false and undefined;
\* a run of the URL effect on a query whose openDeploy parameter is exactly
\* 'true' sets them to true and to the applicationName parameter (undefined
\* when absent); a run on any other query leaves them as they are; and no
\* other step sets shouldOpenDialog to true.
C9_UrlTrigger ==
    /\ ~shouldOpenDialog /\ urlAppName = Undefined
    /\ [][ /\ UrlEffectRuns =>
                IF OpenDeployIsTrue
                THEN shouldOpenDialog' /\ urlAppName' = FirstValue("applicationName")
                ELSE UNCHANGED <<shouldOpenDialog, urlAppName>>
           /\ (~shouldOpenDialog /\ shouldOpenDialog') => UrlEffectRuns /\ OpenDeployIsTrue
         ]_vars

\* the trigger is set with the application name of a query that had other
\* parameters in front of openDeploy
C9_Witness ==
    /\ shouldOpenDialog
    /\ urlAppName = "app"
    /\ replaced = <<"/project/123?foo=my+app&baz=1">>

\* the parameters other than openDeploy and applicationName, in their order
OtherParams ==
    SelectSeq(QueryParams, LAMBDA p : p[1] \notin {"openDeploy", "applicationName"})

\* C10: a run of the URL effect on a query with openDeploy=true replaces the
\* URL once, by the same pathname with a query that holds exactly the other
\* parameters, unchanged and in their order, and no '?' when none remain; a
\* run on any other query replaces nothing.
C10_UrlCleaned ==
    [][ UrlEffectRuns =>
          IF OpenDeployIsTrue
          THEN /\ locPathname' = locPathname
               /\ URLSearchParams(locSearch') = OtherParams
               /\ replaced' = Append(replaced, locPathname' \o locSearch')
               /\ OtherParams = <<>> => locSearch' = ""
          ELSE UNCHANGED <<locSearch, locPathname, replaced>>
      ]_vars

\* a query with a parameter to keep, one to keep with an empty value, and
\* doubled parameters to remove has been cleaned
C10_Witness ==
    /\ replaced # <<>>
    /\ replaced[Len(replaced)] = "/project/abc?foo="
    /\ locSearch = "?foo="

\* clearUrlTrigger is called in this step: the DeployButton effect runs with
\* the trigger set
ClearUrlTriggerCalled == btnDeps' # btnDeps /\ shouldOpenDialog

\* the trigger state is the cleared one
TriggerCleared(flag, name) == ~flag /\ name = Undefined

\* C11: a call of clearUrlTrigger leaves shouldOpenDialog false and
\* initialApplicationName undefined, and from a cleared state every step
\* taken while the query has no openDeploy=true leaves them cleared.
C11_ClearUrlTrigger ==
    [][ /\ ClearUrlTriggerCalled => TriggerCleared(shouldOpenDialog', urlAppName')
        /\ (TriggerCleared(shouldOpenDialog, urlAppName) /\ ~OpenDeployIsTrue)
              => TriggerCleared(shouldOpenDialog', urlAppName')
      ]_vars

\* the trigger of a deep link with a name was cleared, the page then went to
\* a query with openDeploy=false, the URL effect ran on it, and the trigger
\* is still cleared
C11_Witness ==
    /\ lastCall.fn = "openDialog"
    /\ lastCall.arg = "my-app"
    /\ navs = 1
    /\ locSearch = "?openDeploy=false"
    /\ ~UrlEffectPending
    /\ TriggerCleared(shouldOpenDialog, urlAppName)

\* C12: the DeployButton effect has opened the dialog at most once for each
\* visit of a location whose query has openDeploy=true, whatever was closed,
\* re-rendered or visited in between.
C12_DeepLinkOpensOnce == deepOpens <= visits

\* a deep link opened the dialog, the dialog was closed, the page went to a
\* location without openDeploy=true, every effect has run, and the dialog is
\* still closed
C12_Witness ==
    /\ deepOpens = 1
    /\ visits = 1
    /\ navs = 1
    /\ lastCall.fn = "closeDialog"
    /\ ~dlgOpen
    /\ ~UrlEffectPending
    /\ ~ButtonEffectPending

---------------------------------------------------------------------------
(* Properties of the Create Project workflow                               *)

\* a command of createNamespaceRoleAssignment or verifyNamespaceAccess is in
\* flight
AssigningPcs == {"roleShow", "roleCreate", "verifyShow", "verifyList"}

\* C13: a role-assignment or access-verification command is in flight, or an
\* assignee has been gone through, only when createManagedNamespace has
\* returned success; after it returned a failure the workflow has rejected
\* without starting on any assignee.
C13_AssignAfterNamespace ==
    /\ (subPc \in AssigningPcs \/ index > 0 \/ assigneeLog # <<>>)
          => namespaceResult.returned /\ namespaceResult.success
    /\ (namespaceResult.returned /\ ~namespaceResult.success)
          => subPc = "rejected" /\ index = 0 /\ assigneeLog = <<>>

\* the namespace was created, one assignee has been gone through and the
\* access of the second is being verified
C13_Witness ==
    /\ namespaceResult.success
    /\ Len(assigneeLog) = 1
    /\ index = 2
    /\ subPc = "verifyList"

\* the three role assignments of an assignment succeeded and its access was
\* found
Granted(assignment) ==
    \E k \in DOMAIN assigneeLog :
        /\ assigneeLog[k].email = assignment.email
        /\ assigneeLog[k].roles = { mapUIRoleToAzureRole(assignment.role),
                                    "Azure Kubernetes Service Namespace User",
                                    "Azure Kubernetes Service Namespace Contributor" }
        /\ assigneeLog[k].access

\* creationPromise has settled with an assignee in error
AssigneeFailed == assignmentErrors > 0 /\ subPc \in {"resolved", "rejected"}

\* C14 as stated: the success dialog is shown only if createManagedNamespace
\* returned success and every assignment with a non-empty email was granted
\* its three roles and found to have access; and once an assignee has failed
\* the submission is in the error state.
C14_SuccessNeedsEveryAssignee ==
    /\ showSuccessDialog =>
          /\ namespaceResult.success
          /\ \A i \in DOMAIN userAssignments :
                userAssignments[i].email # "" => Granted(userAssignments[i])
    /\ AssigneeFailed => creationError # Undefined /\ ~showSuccessDialog

\* C14 amended: the same for every assignment whose email is non-empty after
\* trimming white space.
C14_SuccessNeedsEveryNamedAssignee ==
    /\ showSuccessDialog =>
          /\ namespaceResult.success
          /\ \A i \in DOMAIN userAssignments :
                Trim(userAssignments[i].email) # "" => Granted(userAssignments[i])
    /\ AssigneeFailed => creationError # Undefined /\ ~showSuccessDialog /\ ~successTimer

\* the success dialog is shown for a form with two assignees, both gone through
C14_Witness ==
    /\ showSuccessDialog
    /\ Len(validAssignments(userAssignments)) = 2
    /\ Len(assigneeLog) = 2

\* the submission has left the creating state
Ended == subRace # "none" /\ ~isCreating

\* the 10-minute timer fires in this step, the workflow not having completed
TimesOut == timeoutTimer /\ ~timeoutTimer' /\ subRace = "pending"

\* C15: a submission in the creating state eventually leaves it; when the
\* 10-minute timer fires before the workflow has completed, the timeout error
\* is shown and isCreating becomes false; and a submission that has left the
\* creating state shows exactly one of the success dialog and an error.
C15_SubmissionEnds ==
    /\ isCreating ~> ~isCreating
    /\ [][TimesOut => creationError' = TimeoutMessage /\ ~isCreating']_vars
    /\ [](Ended => (showSuccessDialog <=> creationError = Undefined))

\* the timeout error is shown while createManagedNamespace is still polling
C15_Witness ==
    /\ creationError = TimeoutMessage
    /\ ~isCreating
    /\ subPc = "namespace"
    /\ nsPolls > 1

\* C16: once creationError is set, the submission issues no further az
\* command: no status poll of createManagedNamespace and no namespace check,
\* role assignment or access verification.
C16_NoCommandAfterFailure ==
    /\ [](lateCommands = {})
    /\ [][creationError # Undefined => ~(nsPolls' > nsPolls)]_vars

---------------------------------------------------------------------------
(* Properties of runCommandAsync                                           *)

\* what first happened to the command was a failure to run it
FirstIsFailure == runEvents[1].kind \in {"unavailable", "threw", "error"}

\* C17: the promise of runCommandAsync is never rejected; once the process has
\* exited (with any code), raised an error event, failed to start, or
\* pluginRunCommand was found missing, the promise is resolved with a pair of
\* stdout and stderr, and a failure to run the command shows as a non-empty
\* stderr beside an empty stdout.
C17_NeverRejects ==
    /\ runPromise.state # "rejected"
    /\ runEvents # <<>> =>
          /\ runPromise.state = "resolved"
          /\ DOMAIN runPromise.value = {"stdout", "stderr"}
          /\ FirstIsFailure =>
                runPromise.value.stdout = "" /\ runPromise.value.stderr # ""

\* the process raised an error event with code 127 after writing to stdout,
\* and then exited
C17_Witness ==
    /\ Len(runEvents) = 2
    /\ runEvents[1] = [kind |-> "error", code |-> 127]
    /\ runEvents[2].kind = "exit"
    /\ runStdout # ""
    /\ runPromise.value = [stdout |-> "", stderr |-> "Command execution code: 127"]

---------------------------------------------------------------------------
(* Properties of the project's delete button                               *)

\* a changing request for namespace name was sent to the Kubernetes API
K8sChanged(name) == \E i \in DOMAIN k8sRequests : k8sRequests[i].name = name

\* C18: when a project is deleted, the Kubernetes namespace of an
\* Azure-managed namespace is deleted or relabelled only after
\* deleteManagedNamespace reported success; when the Azure deletion failed,
\* nothing is changed in Kubernetes for it and the app does not go to '/';
\* and once handleDelete has ended, deleting is false and the dialog closed.
C18_K8sOnlyAfterArmSuccess ==
    /\ \A i \in DOMAIN namespaces :
          (namespaces[i].managed /\ K8sChanged(namespaces[i].name))
              => \E j \in DOMAIN armLog :
                    armLog[j].name = namespaces[i].name /\ armLog[j].success
    /\ \A j \in DOMAIN armLog :
          StderrReportsError(armLog[j].stderr)
              => ~K8sChanged(armLog[j].name) /\ delPushed = 0
    /\ delPc = "done" => ~deleting /\ ~open

---------------------------------------------------------------------------
(* Properties of cancelling a login                                        *)

\* C19: after Cancel was pressed while the login page was polling, the
\* cancelled attempt has no further visible effect: no login-status poll is
\* started, no redirect happens, and neither the status message nor the error
\* message changes again.
C19_CancelledAttemptSilent ==
    [][cancelledPolling =>
          /\ lpPolls' = lpPolls
          /\ lpPushed' = lpPushed
          /\ statusMessage' = statusMessage
          /\ errorMessage' = errorMessage]_vars

\* C20: after the function returned by monitorLoginStatus has been called,
\* onStatusChange is not invoked again and no further login-status poll is
\* started.
C20_CancelledMonitorSilent ==
    [][monCancelled => monLog' = monLog /\ monPolls' = monPolls]_vars

=============================================================================
